---- MODULE Spec2Model ----
(***************************************************************************)
(* Model of dupdurl's locale engine (package locale): the Detector, the    *)
(* translation-aware Grouper and the standard-library pieces they rely on  *)
(* (net/url parsing and printing, strings.Split/Trim/ToLower), at the      *)
(* level of Go strings.  A Go string is a TLA+ string; a []string is a     *)
(* sequence of strings; a Go map is a function on its key set.             *)
(***************************************************************************)
EXTENDS Naturals, Integers, Sequences, FiniteSets, TLC

(***************************************************************************)
(* strings: the operations of Go's strings package that the code uses      *)
(***************************************************************************)
LowerLetters == "abcdefghijklmnopqrstuvwxyz"
UpperLetters == "ABCDEFGHIJKLMNOPQRSTUVWXYZ"
Digits == "0123456789"
HexDigits == "0123456789abcdefABCDEF"

\* `value` under the name the body gives it: a local variable of the code.
Let(value, Body(_)) == Body(value)

\* the i-th byte of s, as a one-byte string
At(s, i) == SubSeq(s, i, i)

RECURSIVE Contains(_, _)
\* strings.Contains(s, c) for a one-byte c
Contains(s, c) ==
    IF s = "" THEN FALSE
    ELSE IF Head(s) = c THEN TRUE ELSE Contains(Tail(s), c)

LowerOf ==
    ("A" :> "a") @@ ("B" :> "b") @@ ("C" :> "c") @@ ("D" :> "d") @@ ("E" :> "e") @@ ("F" :> "f") @@
    ("G" :> "g") @@ ("H" :> "h") @@ ("I" :> "i") @@ ("J" :> "j") @@ ("K" :> "k") @@ ("L" :> "l") @@
    ("M" :> "m") @@ ("N" :> "n") @@ ("O" :> "o") @@ ("P" :> "p") @@ ("Q" :> "q") @@ ("R" :> "r") @@
    ("S" :> "s") @@ ("T" :> "t") @@ ("U" :> "u") @@ ("V" :> "v") @@ ("W" :> "w") @@ ("X" :> "x") @@
    ("Y" :> "y") @@ ("Z" :> "z")

\* unicode.ToLower on one ASCII byte
ToLowerChar(c) == IF c \in DOMAIN LowerOf THEN LowerOf[c] ELSE c

RECURSIVE ToLower(_)
\* strings.ToLower
ToLower(s) == IF s = "" THEN "" ELSE ToLowerChar(Head(s)) \o ToLower(Tail(s))

\* strings.HasPrefix / strings.HasSuffix / strings.TrimPrefix
HasPrefix(s, p) == Len(s) >= Len(p) /\ SubSeq(s, 1, Len(p)) = p
HasSuffix(s, p) == Len(s) >= Len(p) /\ SubSeq(s, Len(s) - Len(p) + 1, Len(s)) = p
TrimPrefix(s, p) == IF HasPrefix(s, p) THEN SubSeq(s, Len(p) + 1, Len(s)) ELSE s

RECURSIVE IndexFrom(_, _, _)
\* the least index >= i at which the one-byte string c occurs in s, or 0
IndexFrom(s, c, i) ==
    IF i > Len(s) THEN 0
    ELSE IF At(s, i) = c THEN i ELSE IndexFrom(s, c, i + 1)

\* strings.Index(s, c) + 1 for a one-byte c (0: not found)
Index(s, c) == IndexFrom(s, c, 1)

RECURSIVE Split(_, _)
\* strings.Split(s, sep) for a one-byte sep: Split("", sep) is <<"">>
Split(s, sep) ==
    Let(Index(s, sep), LAMBDA i :
        IF i = 0 THEN <<s>>
        ELSE <<SubSeq(s, 1, i - 1)>> \o Split(SubSeq(s, i + 1, Len(s)), sep))

RECURSIVE Join(_, _)
\* strings.Join(elems, sep)
Join(elems, sep) ==
    IF Len(elems) = 0 THEN ""
    ELSE IF Len(elems) = 1 THEN elems[1]
    ELSE elems[1] \o sep \o Join(Tail(elems), sep)

RECURSIVE TrimLeft(_, _)
TrimLeft(s, c) == IF s # "" /\ Head(s) = c THEN TrimLeft(Tail(s), c) ELSE s

RECURSIVE TrimRight(_, _)
TrimRight(s, c) ==
    IF s # "" /\ At(s, Len(s)) = c THEN TrimRight(SubSeq(s, 1, Len(s) - 1), c) ELSE s

\* strings.Trim(s, c) for a one-byte cutset c
Trim(s, c) == TrimRight(TrimLeft(s, c), c)

RECURSIVE RemoveAll(_, _)
\* strings.ReplaceAll(s, c, "") for a one-byte c
RemoveAll(s, c) ==
    IF s = "" THEN ""
    ELSE IF Head(s) = c THEN RemoveAll(Tail(s), c)
    ELSE Head(s) \o RemoveAll(Tail(s), c)

\* the byte order of the ASCII characters the model's strings are made of
AsciiOrder == "%&-./0123456789:=?" \o UpperLetters \o "_" \o LowerLetters

CharRank(c) == Index(AsciiOrder, c)

RECURSIVE StrLess(_, _)
\* Go's s < t on strings (byte-wise lexicographic order)
StrLess(s, t) ==
    IF t = "" THEN FALSE
    ELSE IF s = "" THEN TRUE
    ELSE IF Head(s) = Head(t) THEN StrLess(Tail(s), Tail(t))
    ELSE CharRank(Head(s)) < CharRank(Head(t))

(***************************************************************************)
(* detector.go: the locale code table and the Detector                     *)
(***************************************************************************)
LocaleTypePath == "path"
LocaleTypeSubdomain == "subdomain"
LocaleTypeQuery == "query"
LocaleTypeNone == "none"

\* ISO 639-1 language codes
localeCodes ==
    {
      "aa", "ab", "ae", "af", "ak", "am", "an", "ar", "as", "av", "ay", "az",
      "ba", "be", "bg", "bh", "bi", "bm", "bn", "bo", "br", "bs", "ca", "ce",
      "ch", "co", "cr", "cs", "cu", "cv", "cy", "da", "de", "dv", "dz", "ee",
      "el", "en", "eo", "es", "et", "eu", "fa", "ff", "fi", "fj", "fo", "fr",
      "fy", "ga", "gd", "gl", "gn", "gu", "gv", "ha", "he", "hi", "ho", "hr",
      "ht", "hu", "hy", "hz", "ia", "id", "ie", "ig", "ii", "ik", "io", "is",
      "it", "iu", "ja", "jv", "ka", "kg", "ki", "kj", "kk", "kl", "km", "kn",
      "ko", "kr", "ks", "ku", "kv", "kw", "ky", "la", "lb", "lg", "li", "ln",
      "lo", "lt", "lu", "lv", "mg", "mh", "mi", "mk", "ml", "mn", "mr", "ms",
      "mt", "my", "na", "nb", "nd", "ne", "ng", "nl", "nn", "no", "nr", "nv",
      "ny", "oc", "oj", "om", "or", "os", "pa", "pi", "pl", "ps", "pt", "qu",
      "rm", "rn", "ro", "ru", "rw", "sa", "sc", "sd", "se", "sg", "si", "sk",
      "sl", "sm", "sn", "so", "sq", "sr", "ss", "st", "su", "sv", "sw", "ta",
      "te", "tg", "th", "ti", "tk", "tl", "tn", "to", "tr", "ts", "tt", "tw",
      "ty", "ug", "uk", "ur", "uz", "ve", "vi", "vo", "wa", "wo", "xh", "yi",
      "yo", "za", "zh", "zu" }

\* extendedLocaleRegex.MatchString(s): ^[a-z]{2}-[a-zA-Z]{2}$
extendedLocaleRegex(s) ==
    /\ Len(s) = 5
    /\ Contains(LowerLetters, At(s, 1))
    /\ Contains(LowerLetters, At(s, 2))
    /\ At(s, 3) = "-"
    /\ Contains(LowerLetters \o UpperLetters, At(s, 4))
    /\ Contains(LowerLetters \o UpperLetters, At(s, 5))

localeQueryParams == <<"lang", "locale", "language", "hl", "l">>

\* IsLocaleCode
IsLocaleCode(code) ==
    Let(ToLower(code), LAMBDA c : c \in localeCodes \/ extendedLocaleRegex(c))

(***************************************************************************)
(* net/url as the code uses it: Parse, URL.Query, Values.Get / Del /       *)
(* Encode and URL.String, for URLs without userinfo, fragment or valid     *)
(* percent escapes (an invalid escape makes Parse fail, as in Go)          *)
(***************************************************************************)
RECURSIVE SchemeEnd(_, _)
\* url.getScheme: the index of the ':' that ends the scheme, 0 when the
\* string has no scheme, -1 for "missing protocol scheme"
SchemeEnd(s, i) ==
    IF i > Len(s) THEN 0
    ELSE Let(At(s, i), LAMBDA c :
             IF Contains(LowerLetters \o UpperLetters, c) THEN SchemeEnd(s, i + 1)
             ELSE IF Contains(Digits \o "+-.", c) THEN (IF i = 1 THEN 0 ELSE SchemeEnd(s, i + 1))
             ELSE IF c = ":" THEN (IF i = 1 THEN -1 ELSE i)
             ELSE 0)

RECURSIVE BadEscape(_)
\* url.unescape's error: a '%' that is not followed by two hex digits
BadEscape(s) ==
    IF s = "" THEN FALSE
    ELSE IF Head(s) = "%"
         THEN IF Len(s) >= 3 /\ Contains(HexDigits, At(s, 2)) /\ Contains(HexDigits, At(s, 3))
              THEN BadEscape(SubSeq(s, 4, Len(s)))
              ELSE TRUE
    ELSE BadEscape(Tail(s))

\* a *url.URL
URL(scheme, opaque, host, path, rawQuery) ==
    [err |-> FALSE, Scheme |-> scheme, Opaque |-> opaque, Host |-> host,
     Path |-> path, RawQuery |-> rawQuery]

\* the nil URL that comes with Parse's error
ParseError ==
    [err |-> TRUE, Scheme |-> "", Opaque |-> "", Host |-> "", Path |-> "", RawQuery |-> ""]

\* url.parse after the scheme and the query are cut off: the authority
\* after "//" up to the next '/', then the path
ParseHierarchy(scheme, rest, query) ==
    IF ~HasPrefix(rest, "/") /\ scheme # "" THEN URL(scheme, rest, "", "", query)
    ELSE IF HasPrefix(rest, "//") /\ (scheme # "" \/ ~HasPrefix(rest, "///"))
    THEN Let(SubSeq(rest, 3, Len(rest)), LAMBDA authority :
         Let(Index(authority, "/"), LAMBDA s :
         Let(IF s = 0 THEN authority ELSE SubSeq(authority, 1, s - 1), LAMBDA host :
         Let(IF s = 0 THEN "" ELSE SubSeq(authority, s, Len(authority)), LAMBDA path :
             IF BadEscape(host) \/ BadEscape(path) THEN ParseError
             ELSE URL(scheme, "", host, path, query)))))
    ELSE IF BadEscape(rest) THEN ParseError
    ELSE URL(scheme, "", "", rest, query)

\* url.Parse(rawURL)
Parse(rawURL) ==
    Let(SchemeEnd(rawURL, 1), LAMBDA e :
        IF e = -1 THEN ParseError
        ELSE
        Let(IF e = 0 THEN rawURL ELSE SubSeq(rawURL, e + 1, Len(rawURL)), LAMBDA rest :
        Let(Index(rest, "?"), LAMBDA q :
            ParseHierarchy(IF e = 0 THEN "" ELSE ToLower(SubSeq(rawURL, 1, e - 1)),
                           IF q = 0 THEN rest ELSE SubSeq(rest, 1, q - 1),
                           IF q = 0 THEN "" ELSE SubSeq(rest, q + 1, Len(rest))))))

\* one "key=value" piece of a query string, as url.ParseQuery cuts it
QueryPair(piece) ==
    Let(Index(piece, "="), LAMBDA i :
        IF i = 0 THEN [key |-> piece, value |-> ""]
        ELSE [key |-> SubSeq(piece, 1, i - 1), value |-> SubSeq(piece, i + 1, Len(piece))])

\* the pieces of a query string, empty pieces skipped
QueryPairs(rawQuery) ==
    Let(SelectSeq(Split(rawQuery, "&"), LAMBDA p : p # ""), LAMBDA pieces :
        [i \in 1..Len(pieces) |-> QueryPair(pieces[i])])

\* the values of key k among the pairs, in order
ValuesOf(pairs, k) ==
    Let(SelectSeq(pairs, LAMBDA p : p.key = k), LAMBDA mine :
        [i \in 1..Len(mine) |-> mine[i].value])

\* URL.Query(): url.Values, a map from each key to its values in order
Query(rawQuery) ==
    Let(QueryPairs(rawQuery), LAMBDA pairs :
        [k \in {pairs[i].key : i \in 1..Len(pairs)} |-> ValuesOf(pairs, k)])

\* Values.Get(key): the first value of the key, "" when there is none
Get(values, key) == IF key \in DOMAIN values THEN values[key][1] ELSE ""

\* Values.Del(key)
Del(values, key) == [k \in DOMAIN values \ {key} |-> values[k]]

RECURSIVE SortedKeys(_)
\* the keys of a map in increasing byte order, as Values.Encode visits them
SortedKeys(keys) ==
    IF keys = {} THEN <<>>
    ELSE Let(CHOOSE k \in keys : \A o \in keys \ {k} : StrLess(k, o), LAMBDA least :
             <<least>> \o SortedKeys(keys \ {least}))

RECURSIVE EncodeKeys(_, _)
EncodeKeys(values, keys) ==
    IF Len(keys) = 0 THEN <<>>
    ELSE [i \in 1..Len(values[keys[1]]) |-> keys[1] \o "=" \o values[keys[1]][i]]
         \o EncodeKeys(values, Tail(keys))

\* Values.Encode(): "k=v" pieces joined by '&', sorted by key
Encode(values) == Join(EncodeKeys(values, SortedKeys(DOMAIN values)), "&")

\* URL.String()
String(u) ==
    (IF u.Scheme # "" THEN u.Scheme \o ":" ELSE "")
    \o (IF u.Opaque # "" THEN u.Opaque
        ELSE (IF (u.Scheme # "" \/ u.Host # "") /\ (u.Host # "" \/ u.Path # "")
              THEN "//" ELSE "")
             \o (IF u.Scheme # "" \/ u.Host # "" THEN u.Host ELSE "")
             \o (IF u.Path # "" /\ Head(u.Path) # "/" /\ u.Host # "" THEN "/" ELSE "")
             \o u.Path)
    \o (IF u.RawQuery # "" THEN "?" \o u.RawQuery ELSE "")

(***************************************************************************)
(* detector.go: Detector                                                   *)
(***************************************************************************)
\* NewDetector: contextAware is always true
contextAware == TRUE

\* detectSubdomain
detectSubdomain(host) ==
    Let(Split(host, "."), LAMBDA parts :
        IF Len(parts) < 2 THEN ""
        ELSE Let(ToLower(parts[1]), LAMBDA firstPart :
                 IF firstPart \in localeCodes THEN firstPart
                 ELSE IF extendedLocaleRegex(firstPart) THEN ToLower(firstPart)
                 ELSE ""))

\* the deny-list of validatePathSegmentAsLocale
falsePositives == {"id", "in", "is", "or", "to", "ad", "as", "at", "by", "go", "no"}

\* validatePathSegmentAsLocale without the deny-list guard
validatePathSegmentAsLocale_NoDenyList(segment0, allSegments, position) ==
    Let(ToLower(segment0), LAMBDA segment :
    Let(extendedLocaleRegex(segment), LAMBDA extended :
        IF ~(segment \in localeCodes \/ extended) THEN ""
        ELSE IF contextAware /\ Contains(segment, "-") /\ ~extended THEN ""
        ELSE IF contextAware /\ segment = "it" /\ position > 0
                /\ allSegments[1] \in {"api", "tech", "technology"} THEN ""
        ELSE IF contextAware /\ position > 0 /\ allSegments[1] = "api"
                /\ Len(allSegments) < 3 THEN ""
        ELSE segment))

\* validatePathSegmentAsLocale without the guard for short paths under "api"
validatePathSegmentAsLocale_NoApiGuard(segment0, allSegments, position) ==
    Let(ToLower(segment0), LAMBDA segment :
    Let(extendedLocaleRegex(segment), LAMBDA extended :
        IF ~(segment \in localeCodes \/ extended) THEN ""
        ELSE IF contextAware /\ Contains(segment, "-") /\ ~extended THEN ""
        ELSE IF contextAware /\ segment \in falsePositives THEN ""
        ELSE IF contextAware /\ segment = "it" /\ position > 0
                /\ allSegments[1] \in {"api", "tech", "technology"} THEN ""
        ELSE segment))

\* validatePathSegmentAsLocale; position counts from 0 as in the code
validatePathSegmentAsLocale(segment0, allSegments, position) ==
    Let(ToLower(segment0), LAMBDA segment :
    Let(extendedLocaleRegex(segment), LAMBDA extended :
        IF ~(segment \in localeCodes \/ extended) THEN ""
        ELSE IF contextAware /\ Contains(segment, "-") /\ ~extended THEN ""
        ELSE IF contextAware /\ segment \in falsePositives THEN ""
        ELSE IF contextAware /\ segment = "it" /\ position > 0
                /\ allSegments[1] \in {"api", "tech", "technology"} THEN ""
        ELSE IF contextAware /\ position > 0 /\ allSegments[1] = "api"
                /\ Len(allSegments) < 3 THEN ""
        ELSE segment))

\* detectPathPrefix that goes on to the third segment
detectPathPrefix_ThirdSegment(path) ==
    IF path = "" \/ path = "/" THEN <<"", -1>>
    ELSE Let(Split(Trim(path, "/"), "/"), LAMBDA segments :
         Let({i \in 1..Len(segments) :
                 i <= 3 /\ validatePathSegmentAsLocale(segments[i], segments, i - 1) # ""},
             LAMBDA hits :
             IF hits = {} THEN <<"", -1>>
             ELSE Let(CHOOSE i \in hits : \A j \in hits : i <= j, LAMBDA i :
                      <<ToLower(segments[i]), i - 1>>)))

\* detectPathPrefix: <<locale, position>>
detectPathPrefix(path) ==
    IF path = "" \/ path = "/" THEN <<"", -1>>
    ELSE Let(Split(Trim(path, "/"), "/"), LAMBDA segments :
         Let(validatePathSegmentAsLocale(segments[1], segments, 0), LAMBDA first :
             IF first # "" THEN <<first, 0>>
             ELSE IF Len(segments) > 1
             THEN Let(validatePathSegmentAsLocale(segments[2], segments, 1), LAMBDA second :
                      IF second # "" THEN <<second, 1>> ELSE <<"", -1>>)
             ELSE <<"", -1>>))

RECURSIVE detectQueryParamFrom_StopAtFirst(_, _)
\* the loop of detectQueryParam that gives up at the first candidate present
\* whose value is not a locale code
detectQueryParamFrom_StopAtFirst(query, i) ==
    IF i > Len(localeQueryParams) THEN ""
    ELSE Let(Get(query, localeQueryParams[i]), LAMBDA val0 :
         Let(ToLower(val0), LAMBDA val :
             IF val0 = "" THEN detectQueryParamFrom_StopAtFirst(query, i + 1)
             ELSE IF val \in localeCodes \/ extendedLocaleRegex(val) THEN val
             ELSE ""))

RECURSIVE detectQueryParamFrom(_, _)
\* the loop of detectQueryParam from the i-th candidate name on
detectQueryParamFrom(query, i) ==
    IF i > Len(localeQueryParams) THEN ""
    ELSE Let(Get(query, localeQueryParams[i]), LAMBDA val0 :
         Let(ToLower(val0), LAMBDA val :
             IF val0 # "" /\ (val \in localeCodes \/ extendedLocaleRegex(val))
             THEN val
             ELSE detectQueryParamFrom(query, i + 1)))

\* detectQueryParam
detectQueryParam(query) == detectQueryParamFrom(query, 1)

\* removeSubdomainLocale
removeSubdomainLocale(rawURL, u, locale) ==
    Let(Split(u.Host, "."), LAMBDA parts :
        IF Len(parts) < 2 THEN rawURL
        ELSE String([u EXCEPT !.Host = Join(Tail(parts), ".")]))

\* removePathLocale that always drops the first segment
removePathLocale_First(rawURL, u, locale, position) ==
    Let(Tail(Split(Trim(u.Path, "/"), "/")), LAMBDA newSegments :
        String([u EXCEPT !.Path = IF Len(newSegments) = 0 THEN "/"
                                  ELSE "/" \o Join(newSegments, "/")]))

\* removePathLocale; position counts from 0
removePathLocale(rawURL, u, locale, position) ==
    Let(Split(Trim(u.Path, "/"), "/"), LAMBDA segments :
    Let([i \in 1..(Len(segments) - 1) |->
            IF i <= position THEN segments[i] ELSE segments[i + 1]], LAMBDA newSegments :
        String([u EXCEPT !.Path = IF Len(newSegments) = 0 THEN "/"
                                  ELSE "/" \o Join(newSegments, "/")])))

RECURSIVE removeQueryParams(_, _, _)
\* the loop of removeQueryLocale from the i-th candidate name on
removeQueryParams(q, locale, i) ==
    IF i > Len(localeQueryParams) THEN q
    ELSE removeQueryParams(
             IF ToLower(Get(q, localeQueryParams[i])) = locale
             THEN Del(q, localeQueryParams[i]) ELSE q,
             locale, i + 1)

\* removeQueryLocale
removeQueryLocale(rawURL, u, locale) ==
    String([u EXCEPT !.RawQuery = Encode(removeQueryParams(Query(u.RawQuery), locale, 1))])

\* the nil result that comes with Detect's error
DetectError == [err |-> TRUE]

\* a *LocalizedURL
LocalizedURL(base, locale, type, original, position) ==
    [err |-> FALSE, BaseURL |-> base, Locale |-> locale, LocaleType |-> type,
     OriginalURL |-> original, Position |-> position]

\* Detect with the path checked before the subdomain
Detect_PathFirst(rawURL) ==
    Let(Parse(rawURL), LAMBDA u :
        IF u.err THEN DetectError
        ELSE
        Let(detectPathPrefix(u.Path), LAMBDA lp :
            IF lp[1] # ""
            THEN LocalizedURL(removePathLocale(rawURL, u, lp[1], lp[2]),
                              lp[1], LocaleTypePath, rawURL, lp[2])
            ELSE
        Let(detectSubdomain(u.Host), LAMBDA locale :
            IF locale # ""
            THEN LocalizedURL(removeSubdomainLocale(rawURL, u, locale),
                              locale, LocaleTypeSubdomain, rawURL, 0)
            ELSE
        Let(detectQueryParam(Query(u.RawQuery)), LAMBDA ql :
            IF ql # ""
            THEN LocalizedURL(removeQueryLocale(rawURL, u, ql),
                              ql, LocaleTypeQuery, rawURL, 0)
            ELSE LocalizedURL(rawURL, "", LocaleTypeNone, rawURL, 0)))))

\* Detect that, with no locale found, returns the re-encoded URL as BaseURL
Detect_Reencoded(rawURL) ==
    Let(Parse(rawURL), LAMBDA u :
        IF u.err THEN DetectError
        ELSE
        Let(detectSubdomain(u.Host), LAMBDA locale :
            IF locale # ""
            THEN LocalizedURL(removeSubdomainLocale(rawURL, u, locale),
                              locale, LocaleTypeSubdomain, rawURL, 0)
            ELSE
        Let(detectPathPrefix(u.Path), LAMBDA lp :
            IF lp[1] # ""
            THEN LocalizedURL(removePathLocale(rawURL, u, lp[1], lp[2]),
                              lp[1], LocaleTypePath, rawURL, lp[2])
            ELSE
        Let(detectQueryParam(Query(u.RawQuery)), LAMBDA ql :
            IF ql # ""
            THEN LocalizedURL(removeQueryLocale(rawURL, u, ql),
                              ql, LocaleTypeQuery, rawURL, 0)
            ELSE LocalizedURL(removeQueryLocale(rawURL, u, ""), "", LocaleTypeNone,
                              rawURL, 0)))))

\* Detector.Detect
Detect(rawURL) ==
    Let(Parse(rawURL), LAMBDA u :
        IF u.err THEN DetectError
        ELSE
        Let(detectSubdomain(u.Host), LAMBDA locale :
            IF locale # ""
            THEN LocalizedURL(removeSubdomainLocale(rawURL, u, locale),
                              locale, LocaleTypeSubdomain, rawURL, 0)
            ELSE
        Let(detectPathPrefix(u.Path), LAMBDA lp :
            IF lp[1] # ""
            THEN LocalizedURL(removePathLocale(rawURL, u, lp[1], lp[2]),
                              lp[1], LocaleTypePath, rawURL, lp[2])
            ELSE
        Let(detectQueryParam(Query(u.RawQuery)), LAMBDA ql :
            IF ql # ""
            THEN LocalizedURL(removeQueryLocale(rawURL, u, ql),
                              ql, LocaleTypeQuery, rawURL, 0)
            ELSE LocalizedURL(rawURL, "", LocaleTypeNone, rawURL, 0)))))

(***************************************************************************)
(* translations.go: the bundled dictionary and the TranslationMatcher      *)
(***************************************************************************)
\* a TranslationGroup
TranslationGroup(canonical, variants) == [Canonical |-> canonical, Variants |-> variants]

\* commonTranslations, in the order of the source
commonTranslations == <<
    TranslationGroup("about",
        <<"about", "about-us", "aboutus", "sobre-nosotros", "sobre", "acerca-de", "acerca",
          "quienes-somos", "chi-siamo", "su-di-noi", "chi-sono", "riguardo", "a-propos",
          "qui-sommes-nous", "uber-uns", "ueber-uns", "wir", "sobre-nos", "quem-somos",
          "o-nas", "o-firme", "hakkimizda", "hakkinda", "tentang-kami", "tentang">>),
    TranslationGroup("products",
        <<"products", "product", "productos", "producto", "prodotti", "prodotto",
          "produits", "produit", "produkte", "produkt", "produtos", "produto", "produkty",
          "produkt", "urunler", "urun">>),
    TranslationGroup("services",
        <<"services", "service", "servicios", "servicio", "servizi", "servizio",
          "services", "service", "dienstleistungen", "dienste", "servicos", "servico",
          "uslugi", "usluga", "hizmetler", "hizmet">>),
    TranslationGroup("contact",
        <<"contact", "contact-us", "contactus", "contacto", "contactanos", "contactenos",
          "contatti", "contattaci", "contact", "contactez-nous", "kontakt", "kontaktieren",
          "contato", "fale-conosco", "kontakt", "kontaktuj", "iletisim">>),
    TranslationGroup("news",
        <<"news", "blog", "articles", "noticias", "novedades", "articulos", "notizie",
          "novita", "articoli", "nouvelles", "actualites", "blog", "nachrichten",
          "neuigkeiten", "blog", "noticias", "novidades", "artigos", "wiadomosci",
          "aktualnosci", "haberler", "blog">>),
    TranslationGroup("help",
        <<"help", "support", "faq", "ayuda", "soporte", "preguntas-frecuentes", "aiuto",
          "supporto", "domande-frequenti", "aide", "support", "faq", "hilfe", "support",
          "faq", "ajuda", "suporte", "perguntas-frequentes", "pomoc", "wsparcie", "yardim",
          "destek">>),
    TranslationGroup("privacy",
        <<"privacy", "privacy-policy", "privacidad", "politica-de-privacidad", "privacy",
          "politica-sulla-privacy", "confidentialite", "politique-de-confidentialite",
          "datenschutz", "datenschutzrichtlinie", "privacidade", "politica-de-privacidade",
          "prywatnosc", "polityka-prywatnosci", "gizlilik", "gizlilik-politikasi">>),
    TranslationGroup("terms",
        <<"terms", "terms-of-service", "terms-and-conditions", "terminos",
          "terminos-de-servicio", "condiciones", "termini", "termini-di-servizio",
          "condizioni", "conditions", "conditions-utilisation", "bedingungen",
          "nutzungsbedingungen", "agb", "termos", "termos-de-servico", "condicoes",
          "warunki", "regulamin", "sartlar", "kullanim-kosullari">>),
    TranslationGroup("account",
        <<"account", "profile", "user", "cuenta", "perfil", "usuario", "account",
          "profilo", "utente", "compte", "profil", "utilisateur", "konto", "profil",
          "benutzer", "conta", "perfil", "usuario", "konto", "profil", "uzytkownik",
          "hesap", "profil", "kullanici">>),
    TranslationGroup("login",
        <<"login", "signin", "sign-in", "iniciar-sesion", "ingresar", "entrar", "accedi",
          "accesso", "login", "connexion", "se-connecter", "anmelden", "einloggen",
          "login", "entrar", "login", "iniciar-sessao", "zaloguj", "logowanie", "giris",
          "giris-yap">>),
    TranslationGroup("signup",
        <<"signup", "register", "sign-up", "registrarse", "registro", "crear-cuenta",
          "registrati", "registrazione", "iscriviti", "inscription", "sinscrire",
          "creer-compte", "registrieren", "anmelden", "konto-erstellen", "cadastro",
          "registrar", "criar-conta", "rejestracja", "zarejestruj", "kayit", "kayit-ol",
          "uye-ol">>),
    TranslationGroup("home",
        <<"home", "index", "main", "inicio", "principal", "casa", "home", "inizio",
          "principale", "accueil", "index", "principale", "startseite", "home",
          "hauptseite", "inicio", "pagina-inicial", "principal", "strona-glowna", "start",
          "ana-sayfa", "anasayfa", "ev">>),
    TranslationGroup("search",
        <<"search", "find", "buscar", "busqueda", "encontrar", "cerca", "ricerca", "trova",
          "recherche", "rechercher", "trouver", "suche", "suchen", "finden", "busca",
          "buscar", "procurar", "szukaj", "wyszukiwanie", "ara", "arama", "bul">>),
    TranslationGroup("cart",
        <<"cart", "basket", "shopping-cart", "carrito", "cesta", "canasta", "carrello",
          "cestino", "panier", "chariot", "warenkorb", "einkaufswagen", "carrinho",
          "cesta", "koszyk", "sepet", "alisveris-sepeti">>),
    TranslationGroup("checkout",
        <<"checkout", "payment", "pay", "pagar", "pago", "finalizar-compra", "checkout",
          "pagamento", "paga", "paiement", "payer", "commander", "kasse", "bezahlen",
          "zahlung", "pagamento", "pagar", "finalizar", "kasa", "platnosc", "odeme",
          "odemeyap">>) >>

\* normalizeForMatching
normalizeForMatching(s0) ==
    Let(RemoveAll(RemoveAll(ToLower(s0), "-"), "_"), LAMBDA s :
        IF Len(s) > 3 /\ HasSuffix(s, "s") THEN SubSeq(s, 1, Len(s) - 1) ELSE s)

RECURSIVE IndexWritesFrom(_)
\* the writes of the groups from the i-th on
IndexWritesFrom(i) ==
    IF i > Len(commonTranslations) THEN <<>>
    ELSE Let(commonTranslations[i], LAMBDA group :
         Let(normalizeForMatching(group.Canonical), LAMBDA canonical :
             [j \in 1..Len(group.Variants) |->
                 [key |-> normalizeForMatching(group.Variants[j]),
                  canonical |-> canonical]]))
         \o IndexWritesFrom(i + 1)

\* the (normalized variant, normalized canonical) pairs in the order in which
\* NewTranslationMatcher writes them into normalizedIndex
IndexWrites == IndexWritesFrom(1)

\* the map a sequence of writes leaves: a later write of a key replaces the
\* earlier one
MapOfWrites(writes) ==
    [k \in {writes[i].key : i \in 1..Len(writes)} |->
        writes[CHOOSE i \in 1..Len(writes) :
                   /\ writes[i].key = k
                   /\ \A j \in (i + 1)..Len(writes) : writes[j].key # k].canonical]

\* NewTranslationMatcher: normalizedIndex
normalizedIndex == MapOfWrites(IndexWrites)

\* AreTranslations that looks up only its first argument
AreTranslations_OneSided(seg1, seg2) ==
    Let(normalizeForMatching(seg1), LAMBDA norm1 :
    Let(normalizeForMatching(seg2), LAMBDA norm2 :
    Let(normalizedIndex, LAMBDA index :
        IF norm1 = norm2 THEN TRUE
        ELSE norm1 \in DOMAIN index /\ index[norm1] = norm2)))

\* TranslationMatcher.AreTranslations
AreTranslations(seg1, seg2) ==
    Let(normalizeForMatching(seg1), LAMBDA norm1 :
    Let(normalizeForMatching(seg2), LAMBDA norm2 :
    Let(normalizedIndex, LAMBDA index :
        IF norm1 = norm2 THEN TRUE
        ELSE /\ norm1 \in DOMAIN index
             /\ norm2 \in DOMAIN index
             /\ index[norm1] = index[norm2])))

\* GetCanonical that returns the normalized form of an unknown segment
GetCanonical_Normalized(segment) ==
    Let(normalizeForMatching(segment), LAMBDA normalized :
    Let(normalizedIndex, LAMBDA index :
        IF normalized \in DOMAIN index THEN index[normalized] ELSE normalized))

\* TranslationMatcher.GetCanonical
GetCanonical(segment) ==
    Let(normalizeForMatching(segment), LAMBDA normalized :
    Let(normalizedIndex, LAMBDA index :
        IF normalized \in DOMAIN index THEN index[normalized] ELSE segment))

(***************************************************************************)
(* grouper.go: LocaleGroup and Grouper                                     *)
(***************************************************************************)
RECURSIVE BubbleInner(_, _, _)
\* the inner loop of sortStrings, j = from .. limit (1-based)
BubbleInner(result, j, limit) ==
    IF j > limit THEN result
    ELSE BubbleInner(
             IF StrLess(result[j + 1], result[j])
             THEN [result EXCEPT ![j] = result[j + 1], ![j + 1] = result[j]]
             ELSE result,
             j + 1, limit)

RECURSIVE BubbleOuter(_, _)
\* the outer loop of sortStrings, i = from .. n-2 (0-based i as in the code)
BubbleOuter(result, i) ==
    IF i >= Len(result) - 1 THEN result
    ELSE BubbleOuter(BubbleInner(result, 1, Len(result) - i - 1), i + 1)

\* sortStrings: a bubble sort
sortStrings(strs) == BubbleOuter(strs, 0)

\* normalizePath
normalizePath(path) ==
    IF path = "" \/ path = "/" THEN "/"
    ELSE Let(Split(Trim(path, "/"), "/"), LAMBDA segments :
             "/" \o Join([i \in 1..Len(segments) |-> GetCanonical(ToLower(segments[i]))],
                         "/"))

\* generateGroupKey.  The range over the params map visits the names in an
\* unspecified order; sortStrings makes the key independent of it.
generateGroupKey(localized) ==
    Let(Parse(localized.BaseURL), LAMBDA u :
        IF u.err THEN localized.BaseURL
        ELSE
        Let(SortedKeys(DOMAIN Query(u.RawQuery)), LAMBDA names :
        Let([i \in 1..Len(names) |-> ToLower(names[Len(names) + 1 - i])], LAMBDA paramNames :
            TrimPrefix(ToLower(u.Host), "www.") \o normalizePath(u.Path)
            \o (IF u.RawQuery # "" /\ Len(paramNames) > 0
                THEN "?" \o Join(sortStrings(paramNames), "&")
                ELSE ""))))

\* a nil *LocalizedURL
Nil == [nil |-> TRUE]

\* &LocaleGroup{BaseKey: groupKey, URLs: make(map), Priority: g.Priority}
NewLocaleGroup(groupKey) ==
    [BaseKey |-> groupKey, URLs |-> [l \in {} |-> Nil], BestURL |-> Nil]

\* NewGrouper that keeps an empty priority list as it is
NewGrouper_NoDefault(priority) == priority

\* NewGrouper: the priority list the Grouper keeps
NewGrouper(priority) == IF Len(priority) = 0 THEN <<"en">> ELSE priority

\* updateBestURL that prefers the "default" entry to the priority list
updateBestURL_DefaultFirst(group, priority) ==
    Let({i \in 1..Len(priority) : priority[i] \in DOMAIN group.URLs}, LAMBDA hits :
        IF "default" \in DOMAIN group.URLs THEN {group.URLs["default"]}
        ELSE IF hits # {}
        THEN {group.URLs[priority[CHOOSE i \in hits : \A j \in hits : i <= j]]}
        ELSE IF DOMAIN group.URLs # {} THEN {group.URLs[l] : l \in DOMAIN group.URLs}
        ELSE {group.BestURL})

\* updateBestURL without the last branch ("otherwise, use first available")
updateBestURL_NoFallback(group, priority) ==
    Let({i \in 1..Len(priority) : priority[i] \in DOMAIN group.URLs}, LAMBDA hits :
        IF hits # {}
        THEN {group.URLs[priority[CHOOSE i \in hits : \A j \in hits : i <= j]]}
        ELSE IF "default" \in DOMAIN group.URLs THEN {group.URLs["default"]}
        ELSE {group.BestURL})

\* updateBestURL: the values the call may leave in group.BestURL.  The last
\* branch takes the first entry of a range over the URLs map, whose order Go
\* leaves unspecified: any stored entry.
updateBestURL(group, priority) ==
    Let({i \in 1..Len(priority) : priority[i] \in DOMAIN group.URLs}, LAMBDA hits :
        IF hits # {}
        THEN {group.URLs[priority[CHOOSE i \in hits : \A j \in hits : i <= j]]}
        ELSE IF "default" \in DOMAIN group.URLs THEN {group.URLs["default"]}
        ELSE IF DOMAIN group.URLs # {} THEN {group.URLs[l] : l \in DOMAIN group.URLs}
        ELSE {group.BestURL})

\* map assignment m[k] = v
MapPut(m, k, v) == [key \in DOMAIN m \cup {k} |-> IF key = k THEN v ELSE m[key]]

\* the locale value a LocalizedURL is stored under
LocaleValue(localized) == IF localized.Locale = "" THEN "default" ELSE localized.Locale

\* Add's store without the "only keep first occurrence" test
StoreURL_Overwrite(group, localized) ==
    [group EXCEPT !.URLs = MapPut(group.URLs, LocaleValue(localized), localized)]

\* the group after Add's "only keep first occurrence of each locale"
StoreURL(group, localized) ==
    IF LocaleValue(localized) \in DOMAIN group.URLs THEN group
    ELSE [group EXCEPT !.URLs = MapPut(group.URLs, LocaleValue(localized), localized)]

\* Add that creates the group before it looks at Detect's error
Add_GroupBeforeCheck(groups, priority, rawURL) ==
    Let(Detect(rawURL), LAMBDA localized :
        IF localized.err
        THEN {[groups |-> MapPut(groups, rawURL, NewLocaleGroup(rawURL)), err |-> TRUE]}
        ELSE
        Let(generateGroupKey(localized), LAMBDA groupKey :
        Let(StoreURL(IF groupKey \in DOMAIN groups THEN groups[groupKey]
                     ELSE NewLocaleGroup(groupKey), localized), LAMBDA group :
            {[groups |-> MapPut(groups, groupKey, [group EXCEPT !.BestURL = best]),
              err |-> FALSE] : best \in updateBestURL(group, priority)})))

\* Grouper.Add: the outcomes [groups, err] of one call on the map `groups`
Add(groups, priority, rawURL) ==
    Let(Detect(rawURL), LAMBDA localized :
        IF localized.err THEN {[groups |-> groups, err |-> TRUE]}
        ELSE
        Let(generateGroupKey(localized), LAMBDA groupKey :
        Let(StoreURL(IF groupKey \in DOMAIN groups THEN groups[groupKey]
                     ELSE NewLocaleGroup(groupKey), localized), LAMBDA group :
            {[groups |-> MapPut(groups, groupKey, [group EXCEPT !.BestURL = best]),
              err |-> FALSE] : best \in updateBestURL(group, priority)})))

\* GetBestURLs, as the set of the elements of the returned slice
GetBestURLs(groups) ==
    {groups[k].BestURL : k \in {x \in DOMAIN groups : groups[x].BestURL # Nil}}

\* validateSimilarity that counts identical segments only
validateSimilarity_Identical(loc1, loc2) ==
    Let(Parse(loc1.BaseURL), LAMBDA u1 :
    Let(Parse(loc2.BaseURL), LAMBDA u2 :
        IF u1.err \/ u2.err THEN FALSE
        ELSE IF ToLower(TrimPrefix(u1.Host, "www.")) # ToLower(TrimPrefix(u2.Host, "www."))
        THEN FALSE
        ELSE
        Let(Split(Trim(u1.Path, "/"), "/"), LAMBDA seg1 :
        Let(Split(Trim(u2.Path, "/"), "/"), LAMBDA seg2 :
            IF Len(seg1) # Len(seg2) THEN FALSE
            ELSE Cardinality({i \in 1..Len(seg1) : seg1[i] = seg2[i]}) * 10
                 >= Len(seg1) * 7))))

\* validateSimilarity
validateSimilarity(loc1, loc2) ==
    Let(Parse(loc1.BaseURL), LAMBDA u1 :
    Let(Parse(loc2.BaseURL), LAMBDA u2 :
        IF u1.err \/ u2.err THEN FALSE
        ELSE IF ToLower(TrimPrefix(u1.Host, "www.")) # ToLower(TrimPrefix(u2.Host, "www."))
        THEN FALSE
        ELSE
        Let(Split(Trim(u1.Path, "/"), "/"), LAMBDA seg1 :
        Let(Split(Trim(u2.Path, "/"), "/"), LAMBDA seg2 :
            IF Len(seg1) # Len(seg2) THEN FALSE
            \* float64(matchCount) >= float64(len(seg1)) * 0.7
            ELSE Cardinality({i \in 1..Len(seg1) :
                     seg1[i] = seg2[i] \/ AreTranslations(seg1[i], seg2[i])}) * 10
                 >= Len(seg1) * 7))))

\* ShouldGroup that trusts equal group keys and skips validateSimilarity
ShouldGroup_KeyOnly(url1, url2) ==
    Let(Detect(url1), LAMBDA loc1 :
    Let(Detect(url2), LAMBDA loc2 :
        IF loc1.err \/ loc2.err THEN [ok |-> FALSE, err |-> TRUE]
        ELSE [ok |-> generateGroupKey(loc1) = generateGroupKey(loc2), err |-> FALSE]))

\* Grouper.ShouldGroup: [ok, err]
ShouldGroup(url1, url2) ==
    Let(Detect(url1), LAMBDA loc1 :
    Let(Detect(url2), LAMBDA loc2 :
        IF loc1.err \/ loc2.err THEN [ok |-> FALSE, err |-> TRUE]
        ELSE IF generateGroupKey(loc1) = generateGroupKey(loc2)
        THEN [ok |-> validateSimilarity(loc1, loc2), err |-> FALSE]
        ELSE [ok |-> FALSE, err |-> FALSE]))

(***************************************************************************)
(* deduplicator.go: Deduplicator.  The field grouper is Nil or holds the    *)
(* Priority of d.grouper; the field groups holds d.grouper.groups.         *)
(***************************************************************************)
\* stats.NewStatistics: the counters
NewStatistics ==
    [TotalProcessed |-> 0, UniqueURLs |-> 0, Duplicates |-> 0, ParseErrors |-> 0,
     Filtered |-> 0]

\* New: no grouper, not locale-aware; s is the *Statistics, or Nil
New(s) ==
    [seen |-> <<>>, counts |-> <<>>, order |-> <<>>, stats |-> s,
     grouper |-> Nil, groups |-> <<>>, localeAware |-> FALSE, originalURLs |-> <<>>]

\* NewWithLocaleSupport
NewWithLocaleSupport(s, localePriority) ==
    [seen |-> <<>>, counts |-> <<>>, order |-> <<>>, stats |-> s,
     grouper |-> [Priority |->
                     NewGrouper(IF Len(localePriority) = 0 THEN <<"en">> ELSE localePriority)],
     groups |-> <<>>, localeAware |-> TRUE, originalURLs |-> <<>>]

\* Deduplicator.SetLocaleAware
SetLocaleAware(d, enabled, priority) ==
    [d EXCEPT !.grouper = IF enabled /\ d.grouper = Nil
                          THEN [Priority |->
                                   NewGrouper(IF Len(priority) = 0 THEN <<"en">> ELSE priority)]
                          ELSE d.grouper,
              !.localeAware = enabled]

(***************************************************************************)
(* Bounds and inputs                                                       *)
(***************************************************************************)
\* most labels of a host, segments of a path, pieces of a query string
MaxLabels == 3
MaxSegments == 3
MaxParams == 2
\* most calls made on one Grouper
MaxCalls == 3
\* the goroutines that call Add on one Grouper at the same time
NumGoroutines == 2

\* all sequences over S of a length in lo..hi
SeqsOf(S, lo, hi) == UNION {[1..n -> S] : n \in lo..hi}

HostLabels == {"en", "ES", "pt-BR", "example", "com"}
PathSegments == {"en", "fr", "en-US", "ID", "no", "api", "about"}
QueryPieces == {"lang=en", "locale=ES", "l=de-AT", "lang=zz", "LANG=fr", "hl=fr", "page=1"}

\* a URL string from its host labels, path segments and query pieces
MakeURL(labels, segments, pieces) ==
    "https://" \o Join(labels, ".")
    \o (IF Len(segments) = 0 THEN "" ELSE "/" \o Join(segments, "/"))
    \o (IF Len(pieces) = 0 THEN "" ELSE "?" \o Join(pieces, "&"))

\* the URLs handed to Detect: each family varies one component up to its
\* bound and takes the other two from a few values with and without a locale
DetectInputs ==
    {MakeURL(h, s, q) : h \in SeqsOf(HostLabels, 1, MaxLabels),
                        s \in {<<>>, <<"fr", "about">>}, q \in {<<>>, <<"lang=it">>}}
    \cup {MakeURL(h, s, q) : h \in {<<"example", "com">>, <<"es", "example", "com">>},
                             s \in SeqsOf(PathSegments, 0, MaxSegments),
                             q \in {<<>>, <<"lang=it">>}}
    \cup {MakeURL(h, s, q) : h \in {<<"example", "com">>, <<"es", "example", "com">>},
                             s \in {<<"about">>, <<"fr", "about">>},
                             q \in SeqsOf(QueryPieces, 0, MaxParams)}
    \cup {MakeURL(<<"example", "com">>, <<first, code>> \o rest, <<>>) :
             first \in {"api", "tech", "technology"}, code \in {"it", "IT", "en"},
             rest \in {<<>>, <<"users">>, <<"users", "1">>}}
    \cup {"://no-scheme.com", "https://example.com/%zz", "https://example.com/"}

\* the URLs handed to a Grouper
GrouperURLs ==
    {"https://example.com/about",
     "https://example.com/en/about",
     "https://example.com/es/sobre-nosotros",
     "https://example.com/it/chi-siamo",
     "https://es.example.com/about",
     "https://example.com/login",
     "https://example.com/de/anmelden",
     "https://example.com/api/users/123",
     "https://example.com/en/api/users/123",
     "https://example.com/%zz"}

\* the pairs handed to ShouldGroup
ShouldGroupInputs ==
    {<<"https://example.com/en/about", "https://example.com/es/sobre-nosotros">>,
     <<"https://example.com/en/about", "https://example.com/en/products">>,
     <<"https://WWW.example.com/about", "https://example.com/about">>,
     <<"https://example.com/en/about", "https://example.com/login">>,
     <<"https://example.com/about", "https://example.com/%zz">>}

\* the URLs the concurrent goroutines add
ConcurrentURLs ==
    {"https://example.com/en/about",
     "https://example.com/es/sobre-nosotros",
     "https://example.com/it/chi-siamo"}

\* the segments handed to the TranslationMatcher: the variants of the login
\* and signup groups, and words in and outside the dictionary in several
\* spellings
MatcherSegments ==
    UNION {{commonTranslations[i].Variants[j] :
               j \in 1..Len(commonTranslations[i].Variants)} :
           i \in {g \in 1..Len(commonTranslations) :
                     commonTranslations[g].Canonical \in {"login", "signup"}}}
    \cup {"about", "sobre-nosotros", "Sobre_Nosotros", "chi-siamo", "products",
          "productos", "news", "contact", "unknown-word", "Foo_Bar", "bus", ""}

\* the query pieces of the URLs whose group keys are compared
KeyPieces == {"page=1", "page=2", "Page=1", "sort=a"}

\* the URLs whose group keys are compared: one host and path, the query varies
KeyURLs == {MakeURL(<<"example", "com">>, <<"list">>, q) : q \in SeqsOf(KeyPieces, 0, MaxParams)}

\* the priority lists handed to NewGrouper
PriorityInputs == {<<>>, <<"en">>, <<"it", "es">>}

(***************************************************************************)
(* State                                                                   *)
(***************************************************************************)
VARIABLES
    Priority,    \* Grouper.Priority
    groups,      \* Grouper.groups: group key -> LocaleGroup
    added,       \* the URL strings for which Add has returned nil
    calls,       \* the number of calls made on the Grouper
    lastCall,    \* the last call made on the Grouper and what it returned
    priorityArg, \* the priority list the Grouper was constructed with
    firstURL,    \* group key -> the first URL string Add put into the group
    dIn,         \* the argument of Detect
    dOut,        \* what Detect(dIn) returned, Nil before the call
    dAgain,      \* what Detect(dOut.BaseURL) returned, Nil before the call
    cGroups,     \* Grouper.groups shared by goroutines: group key -> *LocaleGroup
    cHeap,       \* the LocaleGroup objects allocated so far, by address
    cWriting,    \* the maps with a write in progress (the runtime's hashWriting)
    cFatal,      \* the runtime has stopped the process with a fatal error
    cPc,         \* where each goroutine is in Add
    cLocal,      \* the local variables of each goroutine's Add
    mA, mB,      \* the segments handed to the TranslationMatcher
    mAre,        \* what AreTranslations returned for them, Nil before the calls
    mCanon,      \* what GetCanonical(mA) returned, Nil before the call
    kA, kB,      \* two URL strings handed to Detect and generateGroupKey
    kKeys,       \* their group keys, Nil before the calls
    sPriority,   \* the priority list a Scorer and a Grouper are constructed with
    sGroups,     \* the groups of that Grouper
    sCalls,      \* the number of calls made on the Scorer and the Grouper
    sLast,       \* the last call on the Scorer and what it returned, Nil before
    dedup,       \* a Deduplicator
    dedupLog,    \* the Add / AddWithOriginal calls made on it, in order
    dedupEntries, \* what GetEntries returned since the last add, else Nil
    pairA, pairB, \* two URL strings handed to ShouldGroup
    pairOut,     \* their group keys and what ShouldGroup returned, Nil before
    pInput,      \* the lines of the input of processParallel
    pReader,     \* processParallel itself: where it is, lineNum and line
    pJobs,       \* the jobs channel's buffer
    pResults,    \* the results channel's buffer
    pClosed,     \* the channels closed so far
    pWg,         \* the WaitGroup's counter
    pWorker,     \* each worker: where it is and the result it is sending
    pCollector,  \* where the collector is
    pDedup,      \* p.dedup, with p.stats
    pHandled,    \* the input positions whose line a worker took, in order
    pConsumed,   \* the input positions whose result the collector took
    stLines,     \* the lines ProcessStreaming has still to read
    stMain,      \* where ProcessStreaming is
    stDedup,     \* the deduplicator of the current window
    stTicker,    \* the ticker: stopped or not, and its channel C
    stFlushChan, \* the signals buffered in flushChan
    stDone,      \* done has been closed
    stGoroutine  \* where the flush goroutine is

vars == <<Priority, groups, added, calls, lastCall, priorityArg, firstURL,
          dIn, dOut, dAgain, cGroups, cHeap, cWriting, cFatal, cPc, cLocal,
          mA, mB, mAre, mCanon, kA, kB, kKeys,
          sPriority, sGroups, sCalls, sLast, dedup, dedupLog, dedupEntries,
          pairA, pairB, pairOut,
          pInput, pReader, pJobs, pResults, pClosed, pWg, pWorker, pCollector,
          pDedup, pHandled, pConsumed,
          stLines, stMain, stDedup, stTicker, stFlushChan, stDone, stGoroutine>>

grouperVars == <<Priority, groups, added, calls, lastCall, priorityArg, firstURL>>
detectVars == <<dIn, dOut, dAgain>>
concVars == <<cGroups, cHeap, cWriting, cFatal, cPc, cLocal>>
matcherVars == <<mA, mB, mAre, mCanon>>
keyVars == <<kA, kB, kKeys>>
scorerVars == <<sPriority, sGroups, sCalls, sLast>>
dedupVars == <<dedup, dedupLog, dedupEntries>>
pairVars == <<pairA, pairB, pairOut>>
procVars == <<pInput, pReader, pJobs, pResults, pClosed, pWg, pWorker, pCollector,
              pDedup, pHandled, pConsumed>>
streamVars == <<stLines, stMain, stDedup, stTicker, stFlushChan, stDone, stGoroutine>>
localeVars == <<grouperVars, detectVars, concVars, matcherVars, keyVars>>
otherVars == <<scorerVars, dedupVars, pairVars, procVars, streamVars>>

NoCall == [op |-> "none", url |-> "", url2 |-> "", err |-> FALSE, ok |-> FALSE]

GrouperIdle ==
    /\ Priority = <<"en">>
    /\ groups = <<>>
    /\ added = {}
    /\ calls = 0
    /\ lastCall = NoCall
    /\ priorityArg = <<"en">>
    /\ firstURL = <<>>

DetectIdle == dIn = "" /\ dOut = Nil /\ dAgain = Nil

ConcIdle ==
    /\ cGroups = <<>>
    /\ cHeap = <<>>
    /\ cWriting = {}
    /\ cFatal = FALSE
    /\ cPc = <<>>
    /\ cLocal = <<>>

MatcherIdle == mA = "" /\ mB = "" /\ mAre = Nil /\ mCanon = Nil

KeyIdle == kA = "" /\ kB = "" /\ kKeys = Nil

ScorerIdle == sPriority = <<>> /\ sGroups = <<>> /\ sCalls = 0 /\ sLast = Nil

DedupIdle == dedup = Nil /\ dedupLog = <<>> /\ dedupEntries = Nil

PairIdle == pairA = "" /\ pairB = "" /\ pairOut = Nil

ProcIdle ==
    /\ pInput = <<>>
    /\ pReader = Nil
    /\ pJobs = <<>>
    /\ pResults = <<>>
    /\ pClosed = {}
    /\ pWg = 0
    /\ pWorker = <<>>
    /\ pCollector = ""
    /\ pDedup = Nil
    /\ pHandled = <<>>
    /\ pConsumed = <<>>

StreamIdle ==
    /\ stLines = <<>>
    /\ stMain = ""
    /\ stDedup = Nil
    /\ stTicker = Nil
    /\ stFlushChan = 0
    /\ stDone = FALSE
    /\ stGoroutine = ""

LocaleIdle == GrouperIdle /\ DetectIdle /\ ConcIdle /\ MatcherIdle /\ KeyIdle

OthersIdle == ScorerIdle /\ DedupIdle /\ PairIdle /\ ProcIdle /\ StreamIdle

(***************************************************************************)
(* One Grouper, called sequentially                                        *)
(***************************************************************************)
Init ==
    /\ priorityArg \in PriorityInputs
    /\ Priority \in {NewGrouper(priorityArg),
                     NewWithLocaleSupport(NewStatistics, priorityArg).grouper.Priority,
                     SetLocaleAware(New(NewStatistics), TRUE, priorityArg).grouper.Priority}
    /\ groups = <<>>
    /\ added = {}
    /\ calls = 0
    /\ lastCall = NoCall
    /\ firstURL = <<>>
    /\ DetectIdle
    /\ ConcIdle
    /\ MatcherIdle
    /\ KeyIdle
    /\ OthersIdle

\* g.Add(rawURL)
AddCall(rawURL) ==
    /\ calls < MaxCalls
    /\ \E out \in Add(groups, Priority, rawURL) :
          /\ groups' = out.groups
          /\ added' = IF out.err THEN added ELSE added \cup {rawURL}
          /\ firstURL' = [k \in DOMAIN out.groups |->
                             IF k \in DOMAIN firstURL THEN firstURL[k] ELSE rawURL]
          /\ lastCall' = [op |-> "Add", url |-> rawURL, url2 |-> "",
                          err |-> out.err, ok |-> FALSE]
    /\ calls' = calls + 1
    /\ UNCHANGED <<Priority, priorityArg, detectVars, concVars, matcherVars, keyVars, otherVars>>

\* g.ShouldGroup(url1, url2)
ShouldGroupCall(url1, url2) ==
    /\ calls < MaxCalls
    /\ \E out \in {ShouldGroup(url1, url2)} :
          lastCall' = [op |-> "ShouldGroup", url |-> url1, url2 |-> url2,
                       err |-> out.err, ok |-> out.ok]
    /\ calls' = calls + 1
    /\ UNCHANGED <<Priority, priorityArg, groups, added, firstURL,
                    detectVars, concVars, matcherVars, keyVars, otherVars>>

Next ==
    \/ \E rawURL \in GrouperURLs : AddCall(rawURL)
    \/ \E pair \in ShouldGroupInputs : ShouldGroupCall(pair[1], pair[2])

Spec == Init /\ [][Next]_vars

(***************************************************************************)
(* Detect applied to one URL, then to the BaseURL it returned              *)
(***************************************************************************)
InitDetect ==
    /\ dIn \in DetectInputs
    /\ dOut = Nil
    /\ dAgain = Nil
    /\ GrouperIdle
    /\ ConcIdle
    /\ MatcherIdle
    /\ KeyIdle
    /\ OthersIdle

DetectCall ==
    /\ dOut = Nil
    /\ dOut' = Detect(dIn)
    /\ UNCHANGED <<dIn, dAgain, grouperVars, concVars, matcherVars, keyVars, otherVars>>

DetectAgain ==
    /\ dOut # Nil
    /\ ~dOut.err
    /\ dAgain = Nil
    /\ dAgain' = Detect(dOut.BaseURL)
    /\ UNCHANGED <<dIn, dOut, grouperVars, concVars, matcherVars, keyVars, otherVars>>

NextDetect == DetectCall \/ DetectAgain

SpecDetect == InitDetect /\ [][NextDetect]_vars

(***************************************************************************)
(* Several goroutines call Add on one Grouper with no lock.  Each access   *)
(* to a shared map is a step; a map write spans two steps, and an access   *)
(* to a map that is being written is the Go runtime's fatal error          *)
(* ("concurrent map writes", "concurrent map read and map write").         *)
(***************************************************************************)
Goroutines == 1..NumGoroutines

\* the name of the map g.groups, beside the addresses that name the URLs maps
GroupsMap == 0

InitConc ==
    /\ cGroups = <<>>
    /\ cHeap = <<>>
    /\ cWriting = {}
    /\ cFatal = FALSE
    /\ cPc = [t \in Goroutines |-> "detect"]
    /\ cLocal \in [Goroutines -> {[rawURL |-> u, localized |-> Nil, groupKey |-> "",
                                   group |-> 0, best |-> Nil] : u \in ConcurrentURLs}]
    /\ GrouperIdle
    /\ DetectIdle
    /\ MatcherIdle
    /\ KeyIdle
    /\ OthersIdle

\* goroutine t is at pc and the process is alive
At_(t, pc) == ~cFatal /\ cPc[t] = pc

Goto(t, pc) == cPc' = [cPc EXCEPT ![t] = pc]

\* Add: Detect and generateGroupKey, on the goroutine's own data
ConcDetect(t) ==
    /\ At_(t, "detect")
    /\ \E localized \in {Detect(cLocal[t].rawURL)} :
          IF localized.err
          THEN /\ Goto(t, "done")
               /\ UNCHANGED cLocal
          ELSE /\ cLocal' = [cLocal EXCEPT ![t].localized = localized,
                                          ![t].groupKey = generateGroupKey(localized)]
               /\ Goto(t, "lookup")
    /\ UNCHANGED <<cGroups, cHeap, cWriting, cFatal, grouperVars, detectVars, matcherVars, keyVars, otherVars>>

\* group, exists := g.groups[groupKey]
ConcLookup(t) ==
    /\ At_(t, "lookup")
    /\ IF GroupsMap \in cWriting
       THEN cFatal' = TRUE /\ UNCHANGED <<cPc, cLocal>>
       ELSE /\ cFatal' = cFatal
            /\ IF cLocal[t].groupKey \in DOMAIN cGroups
               THEN /\ cLocal' = [cLocal EXCEPT ![t].group = cGroups[cLocal[t].groupKey]]
                    /\ Goto(t, "check")
               ELSE /\ UNCHANGED cLocal
                    /\ Goto(t, "create")
    /\ UNCHANGED <<cGroups, cHeap, cWriting, grouperVars, detectVars, matcherVars, keyVars, otherVars>>

\* group = &LocaleGroup{...}
ConcCreate(t) ==
    /\ At_(t, "create")
    /\ cHeap' = Append(cHeap, NewLocaleGroup(cLocal[t].groupKey))
    /\ cLocal' = [cLocal EXCEPT ![t].group = Len(cHeap) + 1]
    /\ Goto(t, "put")
    /\ UNCHANGED <<cGroups, cWriting, cFatal, grouperVars, detectVars, matcherVars, keyVars, otherVars>>

\* g.groups[groupKey] = group, begun
ConcPutBegin(t) ==
    /\ At_(t, "put")
    /\ IF GroupsMap \in cWriting
       THEN cFatal' = TRUE /\ UNCHANGED <<cPc, cWriting>>
       ELSE /\ cFatal' = cFatal
            /\ cWriting' = cWriting \cup {GroupsMap}
            /\ Goto(t, "putting")
    /\ UNCHANGED <<cGroups, cHeap, cLocal, grouperVars, detectVars, matcherVars, keyVars, otherVars>>

\* g.groups[groupKey] = group, completed
ConcPutEnd(t) ==
    /\ At_(t, "putting")
    /\ cGroups' = MapPut(cGroups, cLocal[t].groupKey, cLocal[t].group)
    /\ cWriting' = cWriting \ {GroupsMap}
    /\ Goto(t, "check")
    /\ UNCHANGED <<cHeap, cFatal, cLocal, grouperVars, detectVars, matcherVars, keyVars, otherVars>>

\* _, exists := group.URLs[locale]
ConcCheck(t) ==
    /\ At_(t, "check")
    /\ IF cLocal[t].group \in cWriting
       THEN cFatal' = TRUE /\ UNCHANGED cPc
       ELSE /\ cFatal' = cFatal
            /\ IF LocaleValue(cLocal[t].localized) \in DOMAIN cHeap[cLocal[t].group].URLs
               THEN Goto(t, "best")
               ELSE Goto(t, "store")
    /\ UNCHANGED <<cGroups, cHeap, cWriting, cLocal, grouperVars, detectVars, matcherVars, keyVars, otherVars>>

\* group.URLs[locale] = localized, begun
ConcStoreBegin(t) ==
    /\ At_(t, "store")
    /\ IF cLocal[t].group \in cWriting
       THEN cFatal' = TRUE /\ UNCHANGED <<cPc, cWriting>>
       ELSE /\ cFatal' = cFatal
            /\ cWriting' = cWriting \cup {cLocal[t].group}
            /\ Goto(t, "storing")
    /\ UNCHANGED <<cGroups, cHeap, cLocal, grouperVars, detectVars, matcherVars, keyVars, otherVars>>

\* group.URLs[locale] = localized, completed
ConcStoreEnd(t) ==
    /\ At_(t, "storing")
    /\ cHeap' = [cHeap EXCEPT ![cLocal[t].group].URLs =
                    MapPut(@, LocaleValue(cLocal[t].localized), cLocal[t].localized)]
    /\ cWriting' = cWriting \ {cLocal[t].group}
    /\ Goto(t, "best")
    /\ UNCHANGED <<cGroups, cFatal, cLocal, grouperVars, detectVars, matcherVars, keyVars, otherVars>>

\* updateBestURL: the reads of group.URLs
ConcBestRead(t) ==
    /\ At_(t, "best")
    /\ IF cLocal[t].group \in cWriting
       THEN cFatal' = TRUE /\ UNCHANGED <<cPc, cLocal>>
       ELSE /\ cFatal' = cFatal
            /\ \E best \in updateBestURL(cHeap[cLocal[t].group], Priority) :
                  cLocal' = [cLocal EXCEPT ![t].best = best]
            /\ Goto(t, "setbest")
    /\ UNCHANGED <<cGroups, cHeap, cWriting, grouperVars, detectVars, matcherVars, keyVars, otherVars>>

\* updateBestURL: group.BestURL = url, and Add returns
ConcBestWrite(t) ==
    /\ At_(t, "setbest")
    /\ cHeap' = [cHeap EXCEPT ![cLocal[t].group].BestURL = cLocal[t].best]
    /\ Goto(t, "done")
    /\ UNCHANGED <<cGroups, cWriting, cFatal, cLocal, grouperVars, detectVars, matcherVars, keyVars, otherVars>>

NextConc ==
    \E t \in Goroutines :
        \/ ConcDetect(t)
        \/ ConcLookup(t)
        \/ ConcCreate(t)
        \/ ConcPutBegin(t)
        \/ ConcPutEnd(t)
        \/ ConcCheck(t)
        \/ ConcStoreBegin(t)
        \/ ConcStoreEnd(t)
        \/ ConcBestRead(t)
        \/ ConcBestWrite(t)

SpecConc == InitConc /\ [][NextConc]_vars

(***************************************************************************)
(* A TranslationMatcher asked about two segments                           *)
(***************************************************************************)
InitMatcher ==
    /\ mA \in MatcherSegments
    /\ mB \in MatcherSegments
    /\ mAre = Nil
    /\ mCanon = Nil
    /\ GrouperIdle
    /\ DetectIdle
    /\ ConcIdle
    /\ KeyIdle
    /\ OthersIdle

\* tm.AreTranslations on the two segments, both ways round, and on mA twice
AreTranslationsCall ==
    /\ mAre = Nil
    /\ mAre' = [ab |-> AreTranslations(mA, mB),
                ba |-> AreTranslations(mB, mA),
                aa |-> AreTranslations(mA, mA)]
    /\ UNCHANGED <<mA, mB, mCanon, grouperVars, detectVars, concVars, keyVars, otherVars>>

\* tm.GetCanonical(mA)
GetCanonicalCall ==
    /\ mCanon = Nil
    /\ mCanon' = [canonical |-> GetCanonical(mA)]
    /\ UNCHANGED <<mA, mB, mAre, grouperVars, detectVars, concVars, keyVars, otherVars>>

NextMatcher == AreTranslationsCall \/ GetCanonicalCall

SpecMatcher == InitMatcher /\ [][NextMatcher]_vars

(***************************************************************************)
(* The group keys of two URLs                                              *)
(***************************************************************************)
InitKey ==
    /\ kA \in KeyURLs
    /\ kB \in KeyURLs
    /\ kKeys = Nil
    /\ GrouperIdle
    /\ DetectIdle
    /\ ConcIdle
    /\ MatcherIdle
    /\ OthersIdle

\* Detect and generateGroupKey on both URLs, as ShouldGroup and Add do
KeyCall ==
    /\ kKeys = Nil
    /\ \E loc1 \in {Detect(kA)}, loc2 \in {Detect(kB)} :
          /\ ~loc1.err /\ ~loc2.err
          /\ kKeys' = [key1 |-> generateGroupKey(loc1), key2 |-> generateGroupKey(loc2)]
    /\ UNCHANGED <<kA, kB, grouperVars, detectVars, concVars, matcherVars, otherVars>>

NextKey == KeyCall

SpecKey == InitKey /\ [][NextKey]_vars

(***************************************************************************)
(* Properties of Detect (SpecDetect)                                       *)
(***************************************************************************)
\* Detect has returned a LocalizedURL for dIn
Detected == dOut # Nil /\ ~dOut.err

\* Detect has also returned a LocalizedURL for the BaseURL
Redetected == Detected /\ dAgain # Nil /\ ~dAgain.err

\* the parts of the input URL
InHostLabels == Split(Parse(dIn).Host, ".")
InSegments == Split(Trim(Parse(dIn).Path, "/"), "/")
InQuery == Query(Parse(dIn).RawQuery)

\* the locale the path of the input carries for Detect, "" if none
InPathLocale == detectPathPrefix(Parse(dIn).Path)[1]
\* the locale the query of the input carries for Detect, "" if none
InQueryLocale == detectQueryParam(InQuery)

\* C1 as stated: whenever the first label of the host is a locale code, Detect
\* reports signal=subdomain with that label (lowercased) as locale, and a
\* query locale is reported only when neither subdomain nor path matched.
C1_Original ==
    Detected =>
        /\ IsLocaleCode(InHostLabels[1]) =>
              /\ dOut.LocaleType = LocaleTypeSubdomain
              /\ dOut.Locale = ToLower(InHostLabels[1])
        /\ dOut.LocaleType = LocaleTypeQuery =>
              /\ ~(Len(InHostLabels) >= 2 /\ IsLocaleCode(InHostLabels[1]))
              /\ InPathLocale = ""

\* C1: whenever the host has at least two labels and its first label is a
\* locale code, Detect reports signal=subdomain with that label (lowercased) as
\* locale, whatever the path and the query carry; a query locale is reported
\* only when neither subdomain nor path matched.
C1_SubdomainFirst ==
    Detected =>
        /\ (Len(InHostLabels) >= 2 /\ IsLocaleCode(InHostLabels[1])) =>
              /\ dOut.LocaleType = LocaleTypeSubdomain
              /\ dOut.Locale = ToLower(InHostLabels[1])
        /\ dOut.LocaleType = LocaleTypeQuery =>
              /\ ~(Len(InHostLabels) >= 2 /\ IsLocaleCode(InHostLabels[1]))
              /\ InPathLocale = ""

\* a URL with a locale subdomain whose path and query carry other locale
\* codes has been through Detect
C1_Witness ==
    /\ Detected
    /\ Len(InHostLabels) >= 2 /\ IsLocaleCode(InHostLabels[1])
    /\ InPathLocale \notin {"", ToLower(InHostLabels[1])}
    /\ InQueryLocale \notin {"", ToLower(InHostLabels[1]), InPathLocale}

SingleLocaleToken ==
    CASE dOut.LocaleType = LocaleTypeSubdomain ->
            \A i \in 2..Len(InHostLabels) : ~IsLocaleCode(InHostLabels[i])
      [] dOut.LocaleType = LocaleTypePath ->
            \A i \in 1..Len(InSegments) :
                i # dOut.Position + 1 => ~IsLocaleCode(InSegments[i])
      [] dOut.LocaleType = LocaleTypeQuery ->
            \A i \in 1..Len(localeQueryParams) :
                localeQueryParams[i] \in DOMAIN InQuery =>
                    \A j \in 1..Len(InQuery[localeQueryParams[i]]) :
                        LET v == InQuery[localeQueryParams[i]][j]
                        IN  IsLocaleCode(v) => ToLower(v) = dOut.Locale
      [] OTHER -> FALSE

DenyListed == {"id", "in", "is", "or", "to", "ad", "as", "at", "by", "go", "no"}

\* C9: the path segment Detect reports as a path-signal locale is never one of
\* the deny-listed tokens, at either inspected position.
C9_DenyListNeverLocale ==
    (Detected /\ dOut.LocaleType = LocaleTypePath) =>
        /\ dOut.Position \in {0, 1}
        /\ ToLower(InSegments[dOut.Position + 1]) \notin DenyListed
        /\ dOut.Locale \notin DenyListed

\* a URL with a deny-listed token in its first and another in its second path
\* segment has been through Detect
C9_Witness ==
    /\ Detected
    /\ Len(InSegments) >= 2
    /\ ToLower(InSegments[1]) \in DenyListed
    /\ ToLower(InSegments[2]) \in DenyListed
    /\ InSegments[1] # InSegments[2]

\* C10: Detect returns signal=none exactly when it returns an empty locale, and
\* when no detector matches the BaseURL is the input string.
C10_NoneKeepsInput ==
    Detected =>
        /\ dOut.LocaleType = LocaleTypeNone <=> dOut.Locale = ""
        /\ (/\ detectSubdomain(Parse(dIn).Host) = ""
            /\ InPathLocale = ""
            /\ InQueryLocale = "")
           => /\ dOut.LocaleType = LocaleTypeNone
              /\ dOut.BaseURL = dIn

\* a URL with a query string and no locale has been through Detect
C10_Witness ==
    /\ Detected
    /\ dOut.LocaleType = LocaleTypeNone
    /\ Parse(dIn).RawQuery # ""

(***************************************************************************)
(* Properties of the Grouper (Spec)                                        *)
(***************************************************************************)
\* the priority rule for one group: the entry BestURL must be
BestByRule(group) ==
    LET hits == {i \in 1..Len(Priority) : Priority[i] \in DOMAIN group.URLs}
        earliest == CHOOSE i \in hits : \A j \in hits : i <= j
    IN  IF hits # {} THEN group.BestURL = group.URLs[Priority[earliest]]
        ELSE IF "default" \in DOMAIN group.URLs THEN group.BestURL = group.URLs["default"]
        ELSE \E l \in DOMAIN group.URLs : group.BestURL = group.URLs[l]

ReAdd == lastCall'.op = "Add" /\ calls' = calls + 1 /\ lastCall'.url \in added

\* C4 as stated: adding a URL string again changes neither the groups, nor a
\* stored entry, nor a BestURL, also in a group without priority locale and
\* without "default" entry.
C4_Original == [][ReAdd => groups' = groups]_vars

\* C5: the set of groups never shrinks, no (group, locale) slot is removed and
\* a slot keeps the URL it was first given.
C5_WriteOnce ==
    [][\A k \in DOMAIN groups :
          /\ k \in DOMAIN groups'
          /\ \A l \in DOMAIN groups[k].URLs :
                /\ l \in DOMAIN groups'[k].URLs
                /\ groups'[k].URLs[l] = groups[k].URLs[l]]_vars

\* an added URL whose slot holds another, earlier URL
C5_Witness ==
    \E u \in added :
        LET localized == Detect(u)
            group     == groups[generateGroupKey(localized)]
        IN  /\ LocaleValue(localized) \in DOMAIN group.URLs
            /\ group.URLs[LocaleValue(localized)].OriginalURL # u

\* the variants of a dictionary concept
VariantsOf(canonical) ==
    UNION {{commonTranslations[i].Variants[j] : j \in 1..Len(commonTranslations[i].Variants)} :
           i \in {x \in 1..Len(commonTranslations) : commonTranslations[x].Canonical = canonical}}

\* u is a page of the concept on example.com: the bare variant, or a variant
\* behind a locale path prefix that is not deny-listed
IsPageOf(u, canonical) ==
    LET p        == Parse(u)
        segments == Split(Trim(IF p.err THEN "" ELSE p.Path, "/"), "/")
    IN  /\ ~p.err
        /\ p.Host = "example.com"
        /\ p.RawQuery = ""
        /\ \/ Len(segments) = 1 /\ segments[1] \in VariantsOf(canonical)
           \/ /\ Len(segments) = 2
              /\ IsLocaleCode(segments[1])
              /\ ToLower(segments[1]) \notin DenyListed
              /\ segments[2] \in VariantsOf(canonical)

\* u is the en variant of a page
IsEnglishPage(u) == Split(Trim(Parse(u).Path, "/"), "/")[1] = "en"

\* C6 as stated: with priority [en], after adding in any order URLs of one
\* page in different locale encodings there is exactly one group, and its
\* BestURL has locale en when an en variant was added.
C6_Original ==
    \A i \in 1..Len(commonTranslations) :
        (/\ Priority = <<"en">>
         /\ added # {}
         /\ \A u \in added : IsPageOf(u, commonTranslations[i].Canonical))
        => /\ Cardinality(DOMAIN groups) = 1
           /\ (\E u \in added : IsEnglishPage(u)) =>
                 \A k \in DOMAIN groups : groups[k].BestURL.Locale = "en"

\* C8: a call that returns an error leaves the groups, every stored entry and
\* every BestURL as they were.
C8_FailureLeavesState ==
    [][(lastCall'.err /\ calls' = calls + 1)
          => (groups' = groups /\ Priority' = Priority)]_vars

\* Add has failed on a Grouper that holds groups
C8_Witness ==
    /\ lastCall.op = "Add"
    /\ lastCall.err
    /\ DOMAIN groups # {}

(***************************************************************************)
(* Properties of concurrent Adds (SpecConc)                                *)
(***************************************************************************)
\* the groups the shared Grouper holds, each with the object its key points to
ConcGroups == [k \in DOMAIN cGroups |-> cHeap[cGroups[k]]]

RECURSIVE SequentialRuns(_, _)
\* the groups that the Adds of the goroutines in `rest`, made one after the
\* other in some order on the map gs, can leave
SequentialRuns(gs, rest) ==
    IF rest = {} THEN {gs}
    ELSE UNION {UNION {SequentialRuns(out.groups, rest \ {t}) :
                       out \in Add(gs, Priority, cLocal[t].rawURL)} : t \in rest}

AllReturned == \A t \in Goroutines : cPc[t] = "done"

\* C7 as stated: once all concurrent Adds have returned, the groups, the
\* entries stored per locale and the BestURLs are those of some sequential
\* order of the same calls.
C7_Original == AllReturned => ConcGroups \in SequentialRuns(<<>>, Goroutines)

(***************************************************************************)
(* Properties of ShouldGroup (Spec)                                        *)
(***************************************************************************)
\* the last call was ShouldGroup and it returned true
SaidSame == lastCall.op = "ShouldGroup" /\ ~lastCall.err /\ lastCall.ok

\* the parsed BaseURLs of the two arguments of the last ShouldGroup call
Base1 == Parse(Detect(lastCall.url).BaseURL)
Base2 == Parse(Detect(lastCall.url2).BaseURL)

\* the path segments of the two BaseURLs
BaseSegments1 == Split(Trim(Base1.Path, "/"), "/")
BaseSegments2 == Split(Trim(Base2.Path, "/"), "/")

\* C11: ShouldGroup returns true only if the two URLs have equal group keys,
\* the same host, the same number of path segments and at least 70% of the
\* aligned segment pairs identical or translations; /en/about and /en/products
\* give false.
C11_ShouldGroupOnlyIf ==
    /\ SaidSame =>
          /\ generateGroupKey(Detect(lastCall.url)) = generateGroupKey(Detect(lastCall.url2))
          /\ ToLower(TrimPrefix(Base1.Host, "www.")) = ToLower(TrimPrefix(Base2.Host, "www."))
          /\ Len(BaseSegments1) = Len(BaseSegments2)
          /\ 10 * Cardinality({i \in 1..Len(BaseSegments1) :
                    \/ BaseSegments1[i] = BaseSegments2[i]
                    \/ AreTranslations(BaseSegments1[i], BaseSegments2[i])})
             >= 7 * Len(BaseSegments1)
    /\ (/\ lastCall.op = "ShouldGroup"
        /\ lastCall.url = "https://example.com/en/about"
        /\ lastCall.url2 = "https://example.com/en/products") => ~lastCall.ok

\* ShouldGroup has returned true for two URLs whose page segments differ and
\* are translations of each other
C11_Witness ==
    /\ SaidSame
    /\ BaseSegments1 # BaseSegments2
    /\ Detect(lastCall.url).Locale # Detect(lastCall.url2).Locale

(***************************************************************************)
(* Properties of the TranslationMatcher (SpecMatcher)                      *)
(***************************************************************************)
\* C12: AreTranslations is reflexive and symmetric.
C12_ReflexiveSymmetric ==
    mAre # Nil => (mAre.aa /\ mAre.ab = mAre.ba)

\* AreTranslations has answered true for two segments of different normalized
\* forms
C12_Witness ==
    /\ mAre # Nil
    /\ mAre.ab
    /\ normalizeForMatching(mA) # normalizeForMatching(mB)

\* the variants group i lists
GroupVariants(i) ==
    {commonTranslations[i].Variants[j] : j \in 1..Len(commonTranslations[i].Variants)}

\* the normalized forms of the variants each group lists
NormalizedVariants ==
    [i \in 1..Len(commonTranslations) |->
        {normalizeForMatching(v) : v \in GroupVariants(i)}]

\* the groups that list a variant of the normalized form of the segment
GroupsListing(segment) ==
    {i \in 1..Len(commonTranslations) :
        normalizeForMatching(segment) \in NormalizedVariants[i]}

\* the fifteen canonical names as the dictionary spells them
CanonicalNames ==
    {commonTranslations[i].Canonical : i \in 1..Len(commonTranslations)}

\* C13 as stated: for a segment of the reverse index GetCanonical returns one
\* of the fifteen canonical names, for every other segment the input unchanged.
C13_Original ==
    mCanon # Nil =>
        IF GroupsListing(mA) # {} THEN mCanon.canonical \in CanonicalNames
        ELSE mCanon.canonical = mA

\* C13: for a segment of the reverse index GetCanonical returns the normalized
\* canonical name (lowercase, a trailing s dropped) of a group that lists a
\* variant of the segment's normalized form; for every other segment it
\* returns the input unchanged.
C13_NormalizedCanonical ==
    mCanon # Nil =>
        IF GroupsListing(mA) # {}
        THEN \E i \in GroupsListing(mA) :
                 mCanon.canonical = normalizeForMatching(commonTranslations[i].Canonical)
        ELSE mCanon.canonical = mA

\* GetCanonical has answered for a segment of a group whose canonical name
\* ends in s
C13_Witness ==
    /\ mCanon # Nil
    /\ \E i \in GroupsListing(mA) : commonTranslations[i].Canonical = "products"
    /\ mCanon.canonical = "product"

\* C14 as stated: for two variants of the dictionary AreTranslations is true
\* exactly when some group lists both.
C14_Original ==
    (/\ mAre # Nil
     /\ \E i \in 1..Len(commonTranslations) : mA \in GroupVariants(i)
     /\ \E i \in 1..Len(commonTranslations) : mB \in GroupVariants(i))
    => (mAre.ab <=> \E i \in 1..Len(commonTranslations) :
                        mA \in GroupVariants(i) /\ mB \in GroupVariants(i))

(***************************************************************************)
(* Properties of query detection (SpecDetect)                              *)
(***************************************************************************)
\* the value Values.Get gives for the i-th candidate parameter name
QueryCandidate(i) == Get(InQuery, localeQueryParams[i])

\* the i-th candidate name is present with a locale code as value
ValidAt(i) == QueryCandidate(i) # "" /\ IsLocaleCode(QueryCandidate(i))

\* neither the host nor the path of the input carries a locale
NoHigherSignal == detectSubdomain(Parse(dIn).Host) = "" /\ InPathLocale = ""

\* C16: a query locale is the lowercased value of the first of lang, locale,
\* language, hl, l whose value is a locale code, candidates with other values
\* being skipped; names match case-sensitively, so with no such candidate
\* (a parameter spelled LANG only) the signal is none.
C16_QueryScanOrder ==
    Detected =>
        /\ dOut.LocaleType = LocaleTypeQuery =>
              \E i \in 1..Len(localeQueryParams) :
                  /\ ValidAt(i)
                  /\ \A j \in 1..(i - 1) : ~ValidAt(j)
                  /\ dOut.Locale = ToLower(QueryCandidate(i))
        /\ (NoHigherSignal /\ \E i \in 1..Len(localeQueryParams) : ValidAt(i))
              => dOut.LocaleType = LocaleTypeQuery
        /\ (NoHigherSignal /\ \A i \in 1..Len(localeQueryParams) : ~ValidAt(i))
              => dOut.LocaleType = LocaleTypeNone

\* Detect has reported a query locale after skipping an earlier candidate
\* whose value is not a locale code
C16_Witness ==
    /\ Detected
    /\ dOut.LocaleType = LocaleTypeQuery
    /\ \E i \in 1..Len(localeQueryParams) :
          /\ ValidAt(i)
          /\ \E j \in 1..(i - 1) : QueryCandidate(j) # "" /\ ~ValidAt(j)

(***************************************************************************)
(* Properties of the group key (SpecKey)                                   *)
(***************************************************************************)
\* the query-parameter names of a URL, lowercased
LowerNames(u) == {ToLower(k) : k \in DOMAIN Query(Parse(u).RawQuery)}

\* C15 as stated: two URLs with the same host and path whose parameter-name
\* sets are equal ignoring letter case get the same group key, whatever the
\* values, the order, the repetition and the casing of the names.
C15_Original ==
    (/\ kKeys # Nil
     /\ Parse(kA).Host = Parse(kB).Host
     /\ Parse(kA).Path = Parse(kB).Path
     /\ LowerNames(kA) = LowerNames(kB))
    => kKeys.key1 = kKeys.key2

(***************************************************************************)
(* Properties of the representatives of the groups (Spec)                  *)
(***************************************************************************)
\* C17: GetBestURLs returns one element per group; each is the BestURL of its
\* group and one of the entries stored in it; no group lacks a representative.
C17_OnePerGroup ==
    /\ Cardinality(GetBestURLs(groups)) = Cardinality(DOMAIN groups)
    /\ \A k \in DOMAIN groups :
          /\ groups[k].BestURL # Nil
          /\ groups[k].BestURL \in GetBestURLs(groups)
          /\ \E l \in DOMAIN groups[k].URLs : groups[k].URLs[l] = groups[k].BestURL
    /\ \A best \in GetBestURLs(groups) : \E k \in DOMAIN groups : groups[k].BestURL = best

\* the group holds no entry of a priority locale
NoPriorityEntry(group) ==
    \A i \in 1..Len(Priority) : Priority[i] \notin DOMAIN group.URLs

\* there are several groups, one of them with several entries, none of a
\* priority locale and none "default"
C17_Witness ==
    /\ Cardinality(DOMAIN groups) >= 2
    /\ \E k \in DOMAIN groups :
          /\ Cardinality(DOMAIN groups[k].URLs) >= 2
          /\ NoPriorityEntry(groups[k])
          /\ "default" \notin DOMAIN groups[k].URLs

\* C18 as stated: the representative of a group without an entry of a
\* priority locale is the first URL that was added to the group.
C18_Original ==
    \A k \in DOMAIN groups :
        NoPriorityEntry(groups[k]) => groups[k].BestURL.OriginalURL = firstURL[k]

\* the URLs GetBestURLs returns
KeptURLs == {best.OriginalURL : best \in GetBestURLs(groups)}

\* C19 as stated: after adding /api/users/123 and /en/api/users/123 both are
\* kept as separate results.
C19_Original ==
    {"https://example.com/api/users/123", "https://example.com/en/api/users/123"}
        \subseteq added
    => {"https://example.com/api/users/123", "https://example.com/en/api/users/123"}
           \subseteq KeptURLs

\* C20: a Grouper constructed with an empty priority list, directly or by a
\* locale-aware Deduplicator, has priority ["en"], and every BestURL is
\* selected with it.
C20_EmptyMeansEn ==
    priorityArg = <<>> =>
        /\ Priority = <<"en">>
        /\ \A k \in DOMAIN groups :
              "en" \in DOMAIN groups[k].URLs => groups[k].BestURL = groups[k].URLs["en"]

\* a Grouper constructed with the empty list holds a group in which the en
\* entry, added after the "default" entry, is the representative
C20_Witness ==
    /\ priorityArg = <<>>
    /\ \E k \in DOMAIN groups :
          /\ {"default", "en"} \subseteq DOMAIN groups[k].URLs
          /\ groups[k].BestURL.Locale = "en"
          /\ firstURL[k] = groups[k].URLs["default"].OriginalURL

(***************************************************************************)
(* scorer.go: Scorer.  A Scorer is given by its localePriority map.        *)
(***************************************************************************)
\* the last position (from 1) at which the list holds the locale
LastListing(priorities, locale) ==
    CHOOSE i \in 1..Len(priorities) :
        /\ priorities[i] = locale
        /\ \A j \in (i + 1)..Len(priorities) : priorities[j] # locale

\* NewScorer that gives the later codes of the list the larger scores
NewScorer_Ascending(priorities) ==
    [locale \in {"default"} \cup {priorities[i] : i \in 1..Len(priorities)} |->
        IF \E i \in 1..Len(priorities) : priorities[i] = locale
        THEN 100 + LastListing(priorities, locale) * 10
        ELSE 50]

\* NewScorer: "default" is written first, then the codes in the order of the
\* list, so the last write of a code is the one the map keeps; the code's i
\* is LastListing - 1
NewScorer(priorities) ==
    [locale \in {"default"} \cup {priorities[i] : i \in 1..Len(priorities)} |->
        IF \E i \in 1..Len(priorities) : priorities[i] = locale
        THEN 100 + (Len(priorities) - (LastListing(priorities, locale) - 1)) * 10
        ELSE 50]

\* calculateCompleteness
calculateCompleteness(rawURL) ==
    Let(Parse(rawURL), LAMBDA u :
        IF u.err THEN 0
        ELSE
        Let(Split(Trim(u.Path, "/"), "/"), LAMBDA pathSegments :
        Let(Cardinality(DOMAIN Query(u.RawQuery)) * 2
            + (IF Len(pathSegments) > 0 /\ pathSegments[1] # ""
               THEN Len(pathSegments) ELSE 0), LAMBDA score :
            IF score > 20 THEN 20 ELSE score)))

\* Scorer.Score
Score(s, localized, isFirstSeen) ==
    Let(LocaleValue(localized), LAMBDA locale :
    Let(IF locale \in DOMAIN s THEN s[locale] ELSE 25, LAMBDA localeScore :
    Let(calculateCompleteness(localized.OriginalURL), LAMBDA completeness :
    Let(IF isFirstSeen THEN 10 ELSE 0, LAMBDA bonus :
        [URL |-> localized.OriginalURL,
         LocaleScore |-> localeScore,
         CompletenessScore |-> completeness,
         FirstSeenBonus |-> bonus,
         TotalScore |-> localeScore + completeness + bonus]))))

\* the orders in which a range over a map with these keys can visit them
IterationOrders(keys) ==
    {order \in [1..Cardinality(keys) -> keys] :
        \A i, j \in 1..Cardinality(keys) : order[i] = order[j] => i = j}

RECURSIVE BestInOrder(_, _, _, _, _)
\* the loop of GetBestFromGroup from the i-th visited entry on; best is the
\* key of bestURL and bestTotal is bestScore.TotalScore
BestInOrder(s, group, order, i, best) ==
    IF i > Len(order) THEN group.URLs[best.key]
    ELSE Let(Score(s, group.URLs[order[i]], i = 1).TotalScore, LAMBDA total :
             BestInOrder(s, group, order, i + 1,
                         IF i = 1 \/ total > best.total
                         THEN [key |-> order[i], total |-> total]
                         ELSE best))

\* Scorer.GetBestFromGroup: what it can return, one value for every order in
\* which the range over group.URLs can visit the entries
GetBestFromGroup(s, group) ==
    IF DOMAIN group.URLs = {} THEN {Nil}
    ELSE {BestInOrder(s, group, order, 1, [key |-> "", total |-> 0]) :
             order \in IterationOrders(DOMAIN group.URLs)}

(***************************************************************************)
(* A Scorer and a Grouper constructed with the same priority list          *)
(***************************************************************************)
\* the priority lists handed to NewScorer and NewGrouper
ScorerPriorities == {<<>>, <<"en">>, <<"en", "es">>, <<"es", "it", "en">>, <<"en", "es", "en">>}

\* the URLs added and scored: translations of one page
ScorerURLs ==
    {"https://example.com/about",
     "https://example.com/en/about",
     "https://example.com/es/sobre-nosotros",
     "https://fr.example.com/about",
     "https://example.com/about?lang=it&x=1"}

InitScorer ==
    /\ sPriority \in ScorerPriorities
    /\ sGroups = <<>>
    /\ sCalls = 0
    /\ sLast = Nil
    /\ LocaleIdle
    /\ DedupIdle
    /\ PairIdle
    /\ ProcIdle
    /\ StreamIdle

\* a call on the Scorer or the Grouper and what it returned
ScorerCalled(op, url, first, score, key, best) ==
    [op |-> op, url |-> url, first |-> first, score |-> score, key |-> key, best |-> best]

\* g.Add(rawURL) on the Grouper
ScorerAdd(rawURL) ==
    /\ sCalls < MaxCalls
    /\ \E out \in Add(sGroups, NewGrouper(sPriority), rawURL) :
          /\ sGroups' = out.groups
          /\ sLast' = ScorerCalled("Add", rawURL, FALSE, Nil, "", Nil)
    /\ sCalls' = sCalls + 1
    /\ UNCHANGED <<sPriority, localeVars, dedupVars, pairVars, procVars, streamVars>>

\* s.Score(localized, isFirstSeen) on what Detect returns for the URL
ScoreCall(rawURL, isFirstSeen) ==
    /\ sCalls < MaxCalls
    /\ \E localized \in {Detect(rawURL)} :
          /\ ~localized.err
          /\ sLast' = ScorerCalled("Score", rawURL, isFirstSeen,
                                   Score(NewScorer(sPriority), localized, isFirstSeen),
                                   "", localized)
    /\ sCalls' = sCalls + 1
    /\ UNCHANGED <<sPriority, sGroups, localeVars, dedupVars, pairVars, procVars, streamVars>>

\* s.GetBestFromGroup(group) on a group of the Grouper
GetBestFromGroupCall(groupKey) ==
    /\ sCalls < MaxCalls
    /\ \E best \in GetBestFromGroup(NewScorer(sPriority), sGroups[groupKey]) :
          sLast' = ScorerCalled("GetBestFromGroup", "", FALSE, Nil, groupKey, best)
    /\ sCalls' = sCalls + 1
    /\ UNCHANGED <<sPriority, sGroups, localeVars, dedupVars, pairVars, procVars, streamVars>>

NextScorer ==
    \/ \E rawURL \in ScorerURLs : ScorerAdd(rawURL)
    \/ \E rawURL \in ScorerURLs, isFirstSeen \in BOOLEAN : ScoreCall(rawURL, isFirstSeen)
    \/ \E groupKey \in DOMAIN sGroups : GetBestFromGroupCall(groupKey)

SpecScorer == InitScorer /\ [][NextScorer]_vars

\* the positions (from 0, as the claim counts them) at which the list holds
\* the locale
ListedAt(locale) == {i \in 0..(Len(sPriority) - 1) : sPriority[i + 1] = locale}

\* the list holds no code twice and does not hold "default"
PlainList ==
    /\ \A i, j \in 1..Len(sPriority) : sPriority[i] = sPriority[j] => i = j
    /\ \A i \in 1..Len(sPriority) : sPriority[i] # "default"

\* the total is the sum of the three components, completeness is at most 20
\* and the first-seen bonus is 10 or 0
ScoreComponents ==
    /\ sLast.score.TotalScore = sLast.score.LocaleScore + sLast.score.CompletenessScore
                                + sLast.score.FirstSeenBonus
    /\ sLast.score.CompletenessScore \in 0..20
    /\ sLast.score.FirstSeenBonus = (IF sLast.first THEN 10 ELSE 0)

ListedLocales(group) ==
    {l \in DOMAIN group.URLs : \E i \in 1..Len(sPriority) : sPriority[i] = l}

\* C27 as stated: for a group holding a URL of a listed locale,
\* GetBestFromGroup returns the group's BestURL.
C27_Original ==
    (/\ sLast # Nil
     /\ sLast.op = "GetBestFromGroup"
     /\ ListedLocales(sGroups[sLast.key]) # {})
    => sLast.best = sGroups[sLast.key].BestURL

(***************************************************************************)
(* normalizer: Config with the values of NewConfig (Mode "url",            *)
(* IgnoreFragment, TrimSpaces; no filters, no ignored parameters, not      *)
(* case-sensitive, www and scheme not kept, no fuzzy mode)                 *)
(***************************************************************************)
\* strings.TrimSpace; the white space of the inputs is the space
TrimSpace(s) == Trim(s, " ")

RECURSIVE collapseOut(_, _)
\* the loop of collapseSlashes: out after the remaining parts
collapseOut(parts, out) ==
    IF Len(parts) = 0 THEN out
    ELSE collapseOut(Tail(parts),
                     IF parts[1] = ""
                     THEN (IF Len(out) = 0 THEN <<"">> ELSE out)
                     ELSE Append(out, parts[1]))

\* collapseSlashes
collapseSlashes(p) ==
    IF p = "" THEN "/"
    ELSE Let(Join(collapseOut(Split(p, "/"), <<>>), "/"), LAMBDA res :
             IF ~HasPrefix(res, "/") THEN "/" \o res ELSE res)

\* NormalizePath
NormalizePath(p0) ==
    IF p0 = "" THEN "/"
    ELSE Let(collapseSlashes(p0), LAMBDA p :
             IF Len(p) > 1 /\ HasSuffix(p, "/") THEN SubSeq(p, 1, Len(p) - 1) ELSE p)

\* normalizeScheme and normalizeHost
normalizeHost(u0) ==
    Let([u0 EXCEPT !.Scheme = ToLower(u0.Scheme), !.Host = ToLower(u0.Host)], LAMBDA u :
    Let(IF u.Scheme = "https" /\ HasSuffix(u.Host, ":443")
        THEN SubSeq(u.Host, 1, Len(u.Host) - 4)
        ELSE IF u.Scheme = "http" /\ HasSuffix(u.Host, ":80")
        THEN SubSeq(u.Host, 1, Len(u.Host) - 3)
        ELSE u.Host, LAMBDA host :
        [u EXCEPT !.Host = TrimPrefix(host, "www.")]))

\* BuildKeyOnlyQuery
BuildKeyOnlyQuery(q) ==
    IF DOMAIN q = {} THEN "" ELSE Join(SortedKeys(DOMAIN q), "&") \o "="

\* Config.NormalizeURL: [val, err]
NormalizeURL(raw) ==
    Let(Parse(TrimSpace(raw)), LAMBDA u0 :
        IF u0.err THEN [val |-> "", err |-> TRUE]
        ELSE Let(normalizeHost(u0), LAMBDA u :
                 [val |-> String([u EXCEPT !.Path = NormalizePath(u.Path),
                                           !.RawQuery = Encode(Query(u.RawQuery))]),
                  err |-> FALSE]))

\* Config.CreateDedupKey: [val, err]
CreateDedupKey(raw) ==
    Let(Parse(TrimSpace(raw)), LAMBDA u0 :
        IF u0.err THEN [val |-> "", err |-> TRUE]
        ELSE Let(normalizeHost(u0), LAMBDA u :
                 [val |-> String([u EXCEPT !.Path = NormalizePath(u.Path),
                                           !.RawQuery = BuildKeyOnlyQuery(Query(u.RawQuery))]),
                  err |-> FALSE]))

(***************************************************************************)
(* deduplicator.go: Add, AddWithOriginal, GetEntries, Count                *)
(***************************************************************************)
\* d.stats.UniqueURLs++ or d.stats.Duplicates++, when d.stats is not nil
CountInStats(s, unique) ==
    IF s = Nil THEN s
    ELSE IF unique THEN [s EXCEPT !.UniqueURLs = @ + 1]
    ELSE [s EXCEPT !.Duplicates = @ + 1]

\* the standard deduplication logic of Add and AddWithOriginal
StandardLogic(d, dedupKey, normalizedURL, originalURL) ==
    Let(MapPut(d.counts, dedupKey,
               (IF dedupKey \in DOMAIN d.counts THEN d.counts[dedupKey] ELSE 0) + 1),
        LAMBDA counts :
        IF dedupKey \notin DOMAIN d.seen
        THEN [d EXCEPT !.seen = MapPut(d.seen, dedupKey, normalizedURL),
                       !.order = Append(d.order, dedupKey),
                       !.originalURLs = MapPut(d.originalURLs, dedupKey, originalURL),
                       !.stats = CountInStats(d.stats, TRUE),
                       !.counts = counts]
        ELSE [d EXCEPT !.stats = CountInStats(d.stats, FALSE),
                       !.counts = counts])

\* Deduplicator.Add that lets the last URL of a key replace the first
DeduplicatorAdd_LastURL(d, dedupKey, normalizedURL) ==
    [StandardLogic(d, dedupKey, normalizedURL, normalizedURL)
        EXCEPT !.seen = MapPut(d.seen, dedupKey, normalizedURL)]

\* Deduplicator.Add
DeduplicatorAdd(d, dedupKey, normalizedURL) ==
    StandardLogic(d, dedupKey, normalizedURL, normalizedURL)

\* Deduplicator.AddWithOriginal: the deduplicators it can leave, one for every
\* BestURL the Grouper's Add can choose; the error of Add is dropped
AddWithOriginal(d, dedupKey, normalizedURL, originalURL) ==
    IF d.localeAware /\ d.grouper # Nil
    THEN {StandardLogic([d EXCEPT !.groups = out.groups],
                        dedupKey, normalizedURL, originalURL) :
             out \in Add(d.groups, d.grouper.Priority, originalURL)}
    ELSE {StandardLogic(d, dedupKey, normalizedURL, originalURL)}

\* Entry{URL: d.seen[key], Count: d.counts[key]}
Entry(d, key) == [URL |-> d.seen[key], Count |-> d.counts[key]]

RECURSIVE EntriesInOrder(_, _, _, _)
\* the outer loop of GetEntries in locale-aware mode from the i-th best URL
\* on: the inner range over d.originalURLs stops at the first key it visits
\* whose original URL is the best URL's and that is not in seenKeys
EntriesInOrder(d, bestURLs, i, seenKeys) ==
    IF i > Len(bestURLs) THEN {<<>>}
    ELSE Let({key \in DOMAIN d.originalURLs :
                 d.originalURLs[key] = bestURLs[i].OriginalURL /\ key \notin seenKeys},
             LAMBDA found :
             IF found = {} THEN EntriesInOrder(d, bestURLs, i + 1, seenKeys)
             ELSE UNION {{<<Entry(d, key)>> \o rest :
                             rest \in EntriesInOrder(d, bestURLs, i + 1,
                                                     seenKeys \cup {key})} :
                         key \in found})

\* Deduplicator.GetEntries: the slices it can return
GetEntries(d) ==
    IF d.localeAware /\ d.grouper # Nil
    THEN UNION {EntriesInOrder(d, bestURLs, 1, {}) :
                   bestURLs \in IterationOrders(GetBestURLs(d.groups))}
    ELSE {[i \in 1..Len(d.order) |-> Entry(d, d.order[i])]}

\* Deduplicator.Count
Count(d) == Len(d.order)

(***************************************************************************)
(* A Deduplicator in standard mode                                         *)
(***************************************************************************)
\* most Add or AddWithOriginal calls made on one Deduplicator
MaxAdds == 3

\* the keys and URLs handed to Add
DedupKeys == {"key1", "key2", "key3"}
DedupAddURLs == {"https://example.com/page1", "https://example.com/page1?param=value"}

InitDedup ==
    /\ dedup \in {New(NewStatistics), New(Nil)}
    /\ dedupLog = <<>>
    /\ dedupEntries = Nil
    /\ LocaleIdle
    /\ ScorerIdle
    /\ PairIdle
    /\ ProcIdle
    /\ StreamIdle

\* d.Add(dedupKey, normalizedURL)
DedupAddCall(dedupKey, normalizedURL) ==
    /\ Len(dedupLog) < MaxAdds
    /\ dedup' = DeduplicatorAdd(dedup, dedupKey, normalizedURL)
    /\ dedupLog' = Append(dedupLog, [key |-> dedupKey, url |-> normalizedURL,
                                     original |-> normalizedURL])
    /\ dedupEntries' = Nil
    /\ UNCHANGED <<localeVars, scorerVars, pairVars, procVars, streamVars>>

\* d.GetEntries() and d.Count()
GetEntriesCall ==
    /\ \E entries \in GetEntries(dedup) :
          dedupEntries' = [entries |-> entries, count |-> Count(dedup)]
    /\ UNCHANGED <<dedup, dedupLog, localeVars, scorerVars, pairVars, procVars, streamVars>>

NextDedup ==
    \/ \E dedupKey \in DedupKeys, normalizedURL \in DedupAddURLs :
          DedupAddCall(dedupKey, normalizedURL)
    \/ GetEntriesCall

SpecDedup == InitDedup /\ [][NextDedup]_vars

\* the positions of the log at which the key is added for the first time
FirstAdds ==
    {i \in 1..Len(dedupLog) : \A j \in 1..(i - 1) : dedupLog[j].key # dedupLog[i].key}

\* C22: in standard mode GetEntries lists every distinct key once, in the
\* order of first appearance, with the URL of the key's first Add and the
\* number of its Adds; Count() is the number of distinct keys, and
\* UniqueURLs + Duplicates is the number of Add calls.
C22_StandardEntries ==
    /\ dedupEntries # Nil =>
          /\ Len(dedupEntries.entries) = Cardinality(FirstAdds)
          /\ dedupEntries.count = Cardinality(FirstAdds)
          /\ \A n \in 1..Len(dedupEntries.entries) :
                \E i \in FirstAdds :
                   /\ Cardinality({j \in FirstAdds : j <= i}) = n
                   /\ dedupEntries.entries[n].URL = dedupLog[i].url
                   /\ dedupEntries.entries[n].Count =
                         Cardinality({j \in 1..Len(dedupLog) :
                                         dedupLog[j].key = dedupLog[i].key})
    /\ (dedup # Nil /\ ~dedup.localeAware /\ dedup.stats # Nil) =>
          dedup.stats.UniqueURLs + dedup.stats.Duplicates = Len(dedupLog)

\* GetEntries after a key was added twice with two URLs and another key
\* after it
C22_Witness ==
    /\ dedupEntries # Nil
    /\ dedup.stats # Nil
    /\ Len(dedupEntries.entries) = 2
    /\ dedupEntries.entries[1].Count = 2
    /\ \E i, j \in 1..Len(dedupLog) :
          i < j /\ dedupLog[i].key = dedupLog[j].key /\ dedupLog[i].url # dedupLog[j].url

(***************************************************************************)
(* A Deduplicator in locale-aware mode                                     *)
(***************************************************************************)
\* the URLs handed to AddWithOriginal
LocaleDedupURLs ==
    {"https://example.com/page?lang=en&foo=bar",
     "https://example.com/page?lang=es&foo=bar",
     "https://example.com/en/about",
     "https://example.com/es/sobre-nosotros"}

\* the calls: the key is the URL itself or what CreateDedupKey makes of it
AddWithOriginalCalls ==
    {[key |-> u, url |-> NormalizeURL(u).val, original |-> u] : u \in LocaleDedupURLs}
    \cup {[key |-> CreateDedupKey(u).val, url |-> NormalizeURL(u).val, original |-> u] :
             u \in LocaleDedupURLs}

InitLocaleDedup ==
    /\ dedup \in {NewWithLocaleSupport(NewStatistics, <<"en">>),
                  SetLocaleAware(New(NewStatistics), TRUE, <<>>)}
    /\ dedupLog = <<>>
    /\ dedupEntries = Nil
    /\ LocaleIdle
    /\ ScorerIdle
    /\ PairIdle
    /\ ProcIdle
    /\ StreamIdle

\* d.AddWithOriginal(dedupKey, normalizedURL, originalURL)
AddWithOriginalCall(call) ==
    /\ Len(dedupLog) < MaxAdds
    /\ dedup' \in AddWithOriginal(dedup, call.key, call.url, call.original)
    /\ dedupLog' = Append(dedupLog, call)
    /\ dedupEntries' = Nil
    /\ UNCHANGED <<localeVars, scorerVars, pairVars, procVars, streamVars>>

NextLocaleDedup ==
    \/ \E call \in AddWithOriginalCalls : AddWithOriginalCall(call)
    \/ GetEntriesCall

SpecLocaleDedup == InitLocaleDedup /\ [][NextLocaleDedup]_vars

\* C23 as stated: in locale-aware mode GetEntries returns one entry for every
\* group of the grouper, the entry recorded for the group's best URL.
C23_Original ==
    (dedupEntries # Nil /\ dedup.localeAware) =>
        /\ Len(dedupEntries.entries) = Cardinality(DOMAIN dedup.groups)
        /\ \A k \in DOMAIN dedup.groups :
              \E n \in 1..Len(dedupEntries.entries) :
                 \E key \in DOMAIN dedup.originalURLs :
                    /\ dedup.originalURLs[key] = dedup.groups[k].BestURL.OriginalURL
                    /\ dedupEntries.entries[n] = Entry(dedup, key)

(***************************************************************************)
(* Path detection (SpecDetect)                                             *)
(***************************************************************************)
\* the host of the input carries no locale for Detect
NoSubdomainLocale == detectSubdomain(Parse(dIn).Host) = ""

\* Detect reports the segment at the position (from 0) as path locale
ReportedAt(position) ==
    dOut.LocaleType = LocaleTypePath /\ dOut.Position = position

\* the path made of the segments without the one at the position (from 0)
PathWithout(segments, position) ==
    IF Len(segments) <= 1 THEN "/"
    ELSE "/" \o Join([i \in 1..(Len(segments) - 1) |->
                         IF i <= position THEN segments[i] ELSE segments[i + 1]], "/")

\* the segment at the position (from 0) exists and passes the checks of
\* validatePathSegmentAsLocale
Accepted(position) ==
    /\ position < Len(InSegments)
    /\ validatePathSegmentAsLocale(InSegments[position + 1], InSegments, position) # ""

\* C24: a path locale is reported at segment 0 or 1 only, at 1 only when
\* segment 0 was not accepted and whenever segment 0 was not accepted but
\* segment 1 is; a locale code at index 2 or later is never reported; the
\* BaseURL path is the original segments without the reported one, in their
\* order, "/" when none remain.
C24_PathSegments ==
    Detected =>
        /\ dOut.LocaleType = LocaleTypePath =>
              /\ dOut.Position \in {0, 1}
              /\ dOut.Position < Len(InSegments)
              /\ dOut.Locale = ToLower(InSegments[dOut.Position + 1])
              /\ dOut.Position = 1 => ~Accepted(0)
              /\ Parse(dOut.BaseURL).Path = PathWithout(InSegments, dOut.Position)
        /\ (NoSubdomainLocale /\ Accepted(0)) => ReportedAt(0)
        /\ (NoSubdomainLocale /\ ~Accepted(0) /\ Accepted(1)) => ReportedAt(1)
        /\ (~Accepted(0) /\ ~Accepted(1)) => dOut.LocaleType # LocaleTypePath

\* segment 0 is a locale code rejected by a guard, segment 1 is reported and
\* removed, and the locale code at index 2 stays in the BaseURL
C24_Witness ==
    /\ Detected
    /\ ReportedAt(1)
    /\ Len(InSegments) = 3
    /\ IsLocaleCode(InSegments[1])
    /\ IsLocaleCode(InSegments[3])
    /\ Parse(dOut.BaseURL).Path = "/" \o InSegments[1] \o "/" \o InSegments[3]

\* the first segment is one under which a candidate at segment 1 is
\* suppressed: "api" with fewer than 3 segments, or "api", "tech" or
\* "technology" with the code "it"
Suppressed ==
    /\ Len(InSegments) >= 2
    /\ IsLocaleCode(InSegments[2])
    /\ \/ InSegments[1] = "api" /\ Len(InSegments) < 3
       \/ InSegments[1] \in {"api", "tech", "technology"} /\ ToLower(InSegments[2]) = "it"

\* C25: under a first segment "api" a locale code in segment 1 is reported
\* only if the path has at least 3 segments; the code "it" in segment 1 is
\* never reported under "api", "tech" or "technology"; the suppressed cases
\* are results with signal none (when host and query carry no locale), never
\* errors.
C25_ApiContext ==
    dOut # Nil =>
        /\ (~dOut.err /\ Len(InSegments) >= 2 /\ InSegments[1] = "api" /\ ReportedAt(1)) =>
              Len(InSegments) >= 3
        /\ (~dOut.err /\ Len(InSegments) >= 2
            /\ InSegments[1] \in {"api", "tech", "technology"}
            /\ ToLower(InSegments[2]) = "it") => ~ReportedAt(1)
        /\ (~Parse(dIn).err /\ Suppressed) =>
              /\ ~dOut.err
              /\ (NoSubdomainLocale /\ InQueryLocale = "") =>
                    /\ dOut.LocaleType = LocaleTypeNone
                    /\ dOut.Locale = ""
                    /\ dOut.BaseURL = dIn

\* "it" under "technology" with more segments after it has given signal none
C25_Witness ==
    /\ Detected
    /\ Len(InSegments) = 4
    /\ InSegments[1] = "technology"
    /\ InSegments[2] = "it"
    /\ dOut.LocaleType = LocaleTypeNone

(***************************************************************************)
(* ShouldGroup and the group keys of two URLs                              *)
(***************************************************************************)
\* the path segments of the URLs handed to ShouldGroup: locale codes and words
\* in and outside the dictionary
PairSegments == {"en", "es", "about", "sobre-nosotros", "users"}

\* the URLs handed to ShouldGroup: lowercase hosts, up to two segments
PairURLs ==
    {MakeURL(h, s, <<>>) : h \in {<<"example", "com">>, <<"www", "example", "com">>},
                           s \in SeqsOf(PairSegments, 0, 2)}
    \cup {"https://example.com/About",
          "https://example.com/about/",
          "https://example.com/en/Sobre_Nosotros",
          "https://es.example.com/about?page=1",
          "https://example.com/en/about?page=2",
          "https://example.com/acerca?lang=es&page=3"}

InitPair ==
    /\ pairA \in PairURLs
    /\ pairB \in PairURLs
    /\ pairOut = Nil
    /\ LocaleIdle
    /\ ScorerIdle
    /\ DedupIdle
    /\ ProcIdle
    /\ StreamIdle

\* g.ShouldGroup(pairA, pairB), and the keys generateGroupKey gives the two
\* URLs in Add
PairCall ==
    /\ pairOut = Nil
    /\ \E loc1 \in {Detect(pairA)}, loc2 \in {Detect(pairB)}, out \in {ShouldGroup(pairA, pairB)} :
          pairOut' = [key1 |-> IF loc1.err THEN "" ELSE generateGroupKey(loc1),
                      key2 |-> IF loc2.err THEN "" ELSE generateGroupKey(loc2),
                      ok |-> out.ok, err |-> out.err]
    /\ UNCHANGED <<pairA, pairB, localeVars, scorerVars, dedupVars, procVars, streamVars>>

NextPair == PairCall

SpecPair == InitPair /\ [][NextPair]_vars

\* C26: for parsable URLs with lowercase hosts and plain-word segments,
\* ShouldGroup returns true exactly when the group keys are equal: the
\* similarity validation rejects no pair with equal keys.
C26_KeysDecide ==
    pairOut # Nil =>
        /\ ~pairOut.err
        /\ pairOut.ok <=> pairOut.key1 = pairOut.key2

\* two translations on different hosts and under different locales have equal
\* keys and ShouldGroup has returned true
C26_Witness ==
    /\ pairOut # Nil
    /\ pairA = "https://example.com/en/about"
    /\ pairB = "https://www.example.com/es/sobre-nosotros"
    /\ pairOut.key1 = pairOut.key2
    /\ pairOut.ok

(***************************************************************************)
(* processor.go: Processor.  processParallel runs as the reader; the       *)
(* workers and the collector are goroutines; each channel operation is a   *)
(* step, and a goroutine blocked on a channel has no step to take.         *)
(***************************************************************************)
\* config.Workers: the number of workers
Workers == 2
\* config.BatchSize: the capacity of jobs and of results
BatchSize == 1

\* handleError: the error counters
handleError(s, errMsg) ==
    IF errMsg = "parse error" THEN [s EXCEPT !.ParseErrors = @ + 1] ELSE s

\* the body of the worker's loop that takes the line itself as the key
workerResult_RawKey(lineNum, line) ==
    [lineNum |-> lineNum, originalLine |-> line, dedupKey |-> line,
     normalizedURL |-> NormalizeURL(line).val, err |-> NormalizeURL(line).err]

\* the body of the worker's loop: the result sent for a line
workerResult(lineNum, line) ==
    Let(CreateDedupKey(line), LAMBDA key :
        IF key.err
        THEN [lineNum |-> lineNum, originalLine |-> line, dedupKey |-> "",
              normalizedURL |-> "", err |-> TRUE]
        ELSE Let(NormalizeURL(line), LAMBDA normalizedURL :
                 IF normalizedURL.err
                 THEN [lineNum |-> lineNum, originalLine |-> line, dedupKey |-> "",
                       normalizedURL |-> "", err |-> TRUE]
                 ELSE [lineNum |-> lineNum, originalLine |-> line, dedupKey |-> key.val,
                       normalizedURL |-> normalizedURL.val, err |-> FALSE]))

\* one pass of the loop of processSequential over a line; d is p.dedup with
\* p.stats
SequentialLine(d, line) ==
    Let([d EXCEPT !.stats.TotalProcessed = @ + 1], LAMBDA counted :
        IF TrimSpace(line) = "" THEN counted
        ELSE Let(CreateDedupKey(line), LAMBDA key :
                 IF key.err
                 THEN [counted EXCEPT !.stats =
                          handleError(counted.stats, "parse error")]
                 ELSE Let(NormalizeURL(line), LAMBDA normalizedURL :
                          IF normalizedURL.err THEN counted
                          ELSE DeduplicatorAdd(counted, key.val, normalizedURL.val))))

RECURSIVE SequentialFrom(_, _, _)
\* the loop of processSequential from the i-th line on
SequentialFrom(d, lines, i) ==
    IF i > Len(lines) THEN d
    ELSE SequentialFrom(SequentialLine(d, lines[i]), lines, i + 1)

\* processSequential: p.dedup when it returns
processSequential(lines) == SequentialFrom(New(NewStatistics), lines, 1)

\* the inputs: lines with the same dedup key, a blank line and a line that
\* does not parse
ProcInputs ==
    {<<>>,
     <<"https://example.com/a?x=1", "https://EXAMPLE.com/a?x=2", "https://www.example.com/b">>,
     <<"https://example.com/a?x=1", " ", "https://example.com/%zz", "https://www.example.com/a?x=3">>,
     <<"https://www.example.com/b", "https://example.com/a?x=1", "https://EXAMPLE.com/a?x=2",
       "https://example.com/b">>}

\* what a worker makes of each line
workerResults ==
    [line \in UNION {{lines[i] : i \in 1..Len(lines)} : lines \in ProcInputs} |->
        workerResult(0, line)]

InitProc ==
    /\ pInput \in ProcInputs
    /\ pReader = [pc |-> "scan", lineNum |-> 0, line |-> ""]
    /\ pJobs = <<>>
    /\ pResults = <<>>
    /\ pClosed = {}
    /\ pWg = Workers
    /\ pWorker = [w \in 1..Workers |-> [pc |-> "recv", lineNum |-> 0, result |-> Nil]]
    /\ pCollector = "recv"
    /\ pDedup = New(NewStatistics)
    /\ pHandled = <<>>
    /\ pConsumed = <<>>
    /\ LocaleIdle
    /\ ScorerIdle
    /\ DedupIdle
    /\ PairIdle
    /\ StreamIdle

\* scanner.Scan(): the next line, skipped when blank; at the end of the input
\* the loop is left
ReaderScan ==
    /\ pReader.pc = "scan"
    /\ IF pReader.lineNum < Len(pInput)
       THEN /\ pDedup' = [pDedup EXCEPT !.stats.TotalProcessed = @ + 1]
            /\ pReader' = [pc |-> IF TrimSpace(pInput[pReader.lineNum + 1]) = ""
                                  THEN "scan" ELSE "send",
                           lineNum |-> pReader.lineNum + 1,
                           line |-> pInput[pReader.lineNum + 1]]
       ELSE /\ pReader' = [pReader EXCEPT !.pc = "close"]
            /\ UNCHANGED pDedup
    /\ UNCHANGED <<pInput, pJobs, pResults, pClosed, pWg, pWorker, pCollector,
                    pHandled, pConsumed, localeVars, scorerVars, dedupVars, pairVars,
                    streamVars>>

\* jobs <- line
ReaderSend ==
    /\ pReader.pc = "send"
    /\ Len(pJobs) < BatchSize
    /\ pJobs' = Append(pJobs, [index |-> pReader.lineNum, line |-> pReader.line])
    /\ pReader' = [pReader EXCEPT !.pc = "scan"]
    /\ UNCHANGED <<pInput, pResults, pClosed, pWg, pWorker, pCollector, pDedup,
                    pHandled, pConsumed, localeVars, scorerVars, dedupVars, pairVars,
                    streamVars>>

\* close(jobs)
ReaderClose ==
    /\ pReader.pc = "close"
    /\ pClosed' = pClosed \cup {"jobs"}
    /\ pReader' = [pReader EXCEPT !.pc = "wait"]
    /\ UNCHANGED <<pInput, pJobs, pResults, pWg, pWorker, pCollector, pDedup,
                    pHandled, pConsumed, localeVars, scorerVars, dedupVars, pairVars,
                    streamVars>>

\* wg.Wait() returns, then close(results)
ReaderWait ==
    /\ pReader.pc = "wait"
    /\ pWg = 0
    /\ pClosed' = pClosed \cup {"results"}
    /\ pReader' = [pReader EXCEPT !.pc = "done"]
    /\ UNCHANGED <<pInput, pJobs, pResults, pWg, pWorker, pCollector, pDedup,
                    pHandled, pConsumed, localeVars, scorerVars, dedupVars, pairVars,
                    streamVars>>

\* the collector's done <- struct{}{} meets the reader's <-done: done has no
\* buffer
DoneHandoff ==
    /\ pReader.pc = "done"
    /\ pCollector = "signal"
    /\ pReader' = [pReader EXCEPT !.pc = "finish"]
    /\ pCollector' = "exited"
    /\ UNCHANGED <<pInput, pJobs, pResults, pClosed, pWg, pWorker, pDedup,
                    pHandled, pConsumed, localeVars, scorerVars, dedupVars, pairVars,
                    streamVars>>

\* p.stats.Finish(); return p.dedup.GetEntries(), nil
ReaderReturn ==
    /\ pReader.pc = "finish"
    /\ pReader' = [pReader EXCEPT !.pc = "returned"]
    /\ UNCHANGED <<pInput, pJobs, pResults, pClosed, pWg, pWorker, pCollector, pDedup,
                    pHandled, pConsumed, localeVars, scorerVars, dedupVars, pairVars,
                    streamVars>>

\* a worker's range over jobs takes a line and makes its result
WorkerRecv(w) ==
    /\ pWorker[w].pc = "recv"
    /\ Len(pJobs) > 0
    /\ pJobs' = Tail(pJobs)
    /\ pWorker' = [pWorker EXCEPT ![w] =
                      [pc |-> "send", lineNum |-> pWorker[w].lineNum + 1,
                       result |-> [index |-> pJobs[1].index,
                                   url |-> [workerResults[pJobs[1].line] EXCEPT
                                               !.lineNum = pWorker[w].lineNum + 1]]]]
    /\ pHandled' = Append(pHandled, pJobs[1].index)
    /\ UNCHANGED <<pInput, pReader, pResults, pClosed, pWg, pCollector, pDedup,
                    pConsumed, localeVars, scorerVars, dedupVars, pairVars, streamVars>>

\* a worker that leaves without wg.Done()
WorkerExit_NoDone(w) ==
    /\ pWorker[w].pc = "recv"
    /\ Len(pJobs) = 0
    /\ "jobs" \in pClosed
    /\ pWorker' = [pWorker EXCEPT ![w].pc = "exited"]
    /\ UNCHANGED <<pInput, pReader, pJobs, pResults, pClosed, pWg, pCollector, pDedup,
                    pHandled, pConsumed, localeVars, scorerVars, dedupVars, pairVars,
                    streamVars>>

\* a worker's range over jobs ends: jobs is closed and empty; wg.Done()
WorkerExit(w) ==
    /\ pWorker[w].pc = "recv"
    /\ Len(pJobs) = 0
    /\ "jobs" \in pClosed
    /\ pWorker' = [pWorker EXCEPT ![w].pc = "exited"]
    /\ pWg' = pWg - 1
    /\ UNCHANGED <<pInput, pReader, pJobs, pResults, pClosed, pCollector, pDedup,
                    pHandled, pConsumed, localeVars, scorerVars, dedupVars, pairVars,
                    streamVars>>

\* results <- processedURL{...}
WorkerSend(w) ==
    /\ pWorker[w].pc = "send"
    /\ Len(pResults) < BatchSize
    /\ pResults' = Append(pResults, pWorker[w].result)
    /\ pWorker' = [pWorker EXCEPT ![w].pc = "recv", ![w].result = Nil]
    /\ UNCHANGED <<pInput, pReader, pJobs, pClosed, pWg, pCollector, pDedup,
                    pHandled, pConsumed, localeVars, scorerVars, dedupVars, pairVars,
                    streamVars>>

\* the collector's range over results takes a result: handleError or
\* p.dedup.Add
CollectorRecv ==
    /\ pCollector = "recv"
    /\ Len(pResults) > 0
    /\ pResults' = Tail(pResults)
    /\ pDedup' = IF pResults[1].url.err
                 THEN [pDedup EXCEPT !.stats = handleError(pDedup.stats, "parse error")]
                 ELSE DeduplicatorAdd(pDedup, pResults[1].url.dedupKey,
                                      pResults[1].url.normalizedURL)
    /\ pConsumed' = Append(pConsumed, pResults[1].index)
    /\ UNCHANGED <<pInput, pReader, pJobs, pClosed, pWg, pWorker, pCollector,
                    pHandled, localeVars, scorerVars, dedupVars, pairVars, streamVars>>

\* the collector's range over results ends: results is closed and empty
CollectorEnd ==
    /\ pCollector = "recv"
    /\ Len(pResults) = 0
    /\ "results" \in pClosed
    /\ pCollector' = "signal"
    /\ UNCHANGED <<pInput, pReader, pJobs, pResults, pClosed, pWg, pWorker, pDedup,
                    pHandled, pConsumed, localeVars, scorerVars, dedupVars, pairVars,
                    streamVars>>

Reader == ReaderScan \/ ReaderSend \/ ReaderClose \/ ReaderWait \/ ReaderReturn

Worker(w) == WorkerRecv(w) \/ WorkerExit(w) \/ WorkerSend(w)

Collector == CollectorRecv \/ CollectorEnd \/ DoneHandoff

NextProc == Reader \/ Collector \/ \E w \in 1..Workers : Worker(w)

\* every goroutine that can run does run
SpecProc ==
    /\ InitProc
    /\ [][NextProc]_vars
    /\ WF_vars(Reader)
    /\ WF_vars(Collector)
    /\ \A w \in 1..Workers : WF_vars(Worker(w))

\* processParallel has returned with every goroutine gone and both channels
\* closed
ParallelReturned ==
    /\ pReader # Nil
    /\ pReader.pc = "returned"
    /\ \A w \in 1..Workers : pWorker[w].pc = "exited"
    /\ pCollector = "exited"
    /\ pClosed = {"jobs", "results"}

\* C28: under fair scheduling processParallel returns, after the jobs channel
\* is closed, every worker has left, the results channel is closed and the
\* collector has signalled done; no interleaving blocks for ever.
C28_Terminates == <>ParallelReturned

\* processParallel has returned after the workers handled three lines
C28_Witness == ParallelReturned /\ Len(pHandled) = 3 /\ pWg = 0

\* the positions of the lines of the input that are not blank
NonBlank == {i \in 1..Len(pInput) : TrimSpace(pInput[i]) # ""}

\* the sequence holds every element of the set exactly once
ExactlyOnce(seq, set) ==
    /\ Len(seq) = Cardinality(set)
    /\ {seq[i] : i \in 1..Len(seq)} = set

\* C29: when processParallel returns every non-blank line was taken by one
\* worker and its result by the collector, once each, and the deduplicator
\* holds the keys and per-key counts processSequential would leave.
C29_SameAsSequential ==
    (pReader # Nil /\ pReader.pc = "returned") =>
        /\ ExactlyOnce(pHandled, NonBlank)
        /\ ExactlyOnce(pConsumed, NonBlank)
        /\ pDedup.counts = processSequential(pInput).counts
        /\ DOMAIN pDedup.seen = DOMAIN processSequential(pInput).seen

\* processParallel has returned after the collector took the results out of
\* the order of the input, two of them with the same key
C29_Witness ==
    /\ pReader # Nil
    /\ pReader.pc = "returned"
    /\ Len(pConsumed) >= 2
    /\ pConsumed[1] > pConsumed[2]
    /\ \E key \in DOMAIN pDedup.counts : pDedup.counts[key] = 2

(***************************************************************************)
(* streaming.go: ProcessStreaming.  The function runs as the main          *)
(* goroutine next to the goroutine that forwards the ticker's events to    *)
(* flushChan; the ticker fires when the runtime's timer says so.           *)
(***************************************************************************)
\* config.MaxBuffer
MaxBuffer == 2

\* the inputs
StreamInputs ==
    {<<>>,
     <<"https://example.com/a?x=1">>,
     <<"https://example.com/a?x=1", "https://www.example.com/b">>,
     <<"https://example.com/a?x=1", " ", "https://example.com/%zz", "https://EXAMPLE.com/a?x=2">>,
     <<"https://example.com/a?x=1", "https://www.example.com/b", "https://example.com/c">>}

\* CreateDedupKey and NormalizeURL of each line of the inputs
streamKeys ==
    [line \in UNION {{lines[i] : i \in 1..Len(lines)} : lines \in StreamInputs} |->
        [key |-> CreateDedupKey(line), normalizedURL |-> NormalizeURL(line)]]

\* flush: whether it returns an error, given whether Output.Format does
flush(d, formatFails) ==
    IF \E entries \in GetEntries(d) : Len(entries) = 0 THEN FALSE ELSE formatFails

\* the body of the scan loop up to dedup.Add: the window after the line
streamLine(d, line) ==
    Let([d EXCEPT !.stats.TotalProcessed = @ + 1], LAMBDA counted :
        IF TrimSpace(line) = "" THEN counted
        ELSE IF streamKeys[line].key.err
        THEN [counted EXCEPT !.stats = handleError(counted.stats, "parse error")]
        ELSE IF streamKeys[line].normalizedURL.err THEN counted
        ELSE DeduplicatorAdd(counted, streamKeys[line].key.val,
                             streamKeys[line].normalizedURL.val))

\* whether the line reaches dedup.Add and the checks after it
streamAdds(line) ==
    /\ TrimSpace(line) # ""
    /\ ~streamKeys[line].key.err
    /\ ~streamKeys[line].normalizedURL.err

InitStream ==
    /\ stLines \in StreamInputs
    /\ stMain = "scan"
    /\ stDedup = New(NewStatistics)
    /\ stTicker = [stopped |-> FALSE, C |-> 0]
    /\ stFlushChan = 0
    /\ stDone = FALSE
    /\ stGoroutine = "select"
    /\ LocaleIdle
    /\ ScorerIdle
    /\ DedupIdle
    /\ PairIdle
    /\ ProcIdle

\* return err: the deferred ticker.Stop() runs, done stays open
ReturnErr ==
    /\ stMain' = "failed"
    /\ stTicker' = [stTicker EXCEPT !.stopped = TRUE]

\* the runtime's timer fires: a tick enters ticker.C unless one waits there
Tick ==
    /\ ~stTicker.stopped
    /\ stTicker.C = 0
    /\ stTicker' = [stTicker EXCEPT !.C = 1]
    /\ UNCHANGED <<stLines, stMain, stDedup, stFlushChan, stDone, stGoroutine,
                    localeVars, scorerVars, dedupVars, pairVars, procVars>>

\* scanner.Scan(): at the end of the input the loop is left; a line is
\* counted and, unless it is skipped, added to the window, which is flushed
\* and replaced when it holds MaxBuffer entries
MainScan ==
    /\ stMain = "scan"
    /\ IF Len(stLines) = 0
       THEN /\ stMain' = "close"
            /\ UNCHANGED <<stLines, stDedup, stTicker>>
       ELSE /\ stLines' = Tail(stLines)
            /\ \E window \in {streamLine(stDedup, stLines[1])} :
                  IF ~streamAdds(stLines[1])
                  THEN /\ stDedup' = window
                       /\ stMain' = "scan"
                       /\ UNCHANGED stTicker
                  ELSE IF Count(window) >= MaxBuffer
                  THEN \E formatFails \in BOOLEAN :
                          IF flush(window, formatFails)
                          THEN /\ stDedup' = window
                               /\ ReturnErr
                          ELSE /\ stDedup' = New(window.stats)
                               /\ stMain' = "select"
                               /\ UNCHANGED stTicker
                  ELSE /\ stDedup' = window
                       /\ stMain' = "select"
                       /\ UNCHANGED stTicker
    /\ UNCHANGED <<stFlushChan, stDone, stGoroutine,
                    localeVars, scorerVars, dedupVars, pairVars, procVars>>

\* the select on flushChan with a default: a signal is taken and a window
\* that holds entries is flushed and replaced
MainSelect ==
    /\ stMain = "select"
    /\ IF stFlushChan > 0
       THEN /\ stFlushChan' = stFlushChan - 1
            /\ IF Count(stDedup) > 0
               THEN \E formatFails \in BOOLEAN :
                       IF flush(stDedup, formatFails)
                       THEN /\ ReturnErr
                            /\ UNCHANGED stDedup
                       ELSE /\ stDedup' = New(stDedup.stats)
                            /\ stMain' = "scan"
                            /\ UNCHANGED stTicker
               ELSE /\ stMain' = "scan"
                    /\ UNCHANGED <<stDedup, stTicker>>
       ELSE /\ stMain' = "scan"
            /\ UNCHANGED <<stFlushChan, stDedup, stTicker>>
    /\ UNCHANGED <<stLines, stDone, stGoroutine,
                    localeVars, scorerVars, dedupVars, pairVars, procVars>>

\* close(done)
MainClose ==
    /\ stMain = "close"
    /\ stDone' = TRUE
    /\ stMain' = "final"
    /\ UNCHANGED <<stLines, stDedup, stTicker, stFlushChan, stGoroutine,
                    localeVars, scorerVars, dedupVars, pairVars, procVars>>

\* the final flush and the return, where the deferred ticker.Stop() runs
MainFinal ==
    /\ stMain = "final"
    /\ \E formatFails \in BOOLEAN :
          stMain' = IF Count(stDedup) > 0 /\ flush(stDedup, formatFails)
                    THEN "failed" ELSE "returned"
    /\ stTicker' = [stTicker EXCEPT !.stopped = TRUE]
    /\ UNCHANGED <<stLines, stDedup, stFlushChan, stDone, stGoroutine,
                    localeVars, scorerVars, dedupVars, pairVars, procVars>>

\* the goroutine's select takes case <-ticker.C
GoroutineTick ==
    /\ stGoroutine = "select"
    /\ stTicker.C > 0
    /\ stTicker' = [stTicker EXCEPT !.C = 0]
    /\ stGoroutine' = "send"
    /\ UNCHANGED <<stLines, stMain, stDedup, stFlushChan, stDone,
                    localeVars, scorerVars, dedupVars, pairVars, procVars>>

\* flushChan <- struct{}{}: flushChan holds one signal
GoroutineSend ==
    /\ stGoroutine = "send"
    /\ stFlushChan < 1
    /\ stFlushChan' = stFlushChan + 1
    /\ stGoroutine' = "select"
    /\ UNCHANGED <<stLines, stMain, stDedup, stTicker, stDone,
                    localeVars, scorerVars, dedupVars, pairVars, procVars>>

\* the goroutine's select takes case <-done and the goroutine returns
GoroutineDone ==
    /\ stGoroutine = "select"
    /\ stDone
    /\ stGoroutine' = "exited"
    /\ UNCHANGED <<stLines, stMain, stDedup, stTicker, stFlushChan, stDone,
                    localeVars, scorerVars, dedupVars, pairVars, procVars>>

Main == MainScan \/ MainSelect \/ MainClose \/ MainFinal

Goroutine == GoroutineTick \/ GoroutineSend \/ GoroutineDone

NextStream == Main \/ Goroutine \/ Tick

\* both goroutines run when they can; the timer fires as it pleases
SpecStream ==
    /\ InitStream
    /\ [][NextStream]_vars
    /\ WF_vars(Main)
    /\ WF_vars(Goroutine)

\* ProcessStreaming has returned
StreamReturned == stMain \in {"returned", "failed"}

\* the goroutine waits on a channel operation nothing will ever complete:
\* a send on the full flushChan that has lost its receiver, or a select whose
\* ticker is stopped and drained and whose done channel is open
LeftBlocked ==
    /\ StreamReturned
    /\ \/ stGoroutine = "send" /\ stFlushChan = 1
       \/ stGoroutine = "select" /\ ~stDone /\ stTicker.stopped /\ stTicker.C = 0

\* C30: once ProcessStreaming has returned, with nil or with a flush error,
\* the flush goroutine is never left blocked on flushChan or on its select
\* with nothing to wake it.
C30_Original == ~LeftBlocked

\* once ProcessStreaming has returned the goroutine ends
C30_Ends == StreamReturned ~> (stGoroutine = "exited")

\* a goroutine left blocked stays blocked
C30_Stays == [](LeftBlocked => []LeftBlocked)
====
